---- MODULE Spec2Model ----
(***************************************************************************)
(* A model of the assignment synchronisation and rubric import of the      *)
(* quickfeed backend (web/assignments.go), of the assignment parser        *)
(* (ParseAssignments), of the storage they act on, of the operations of    *)
(* the service (web/autograder_service.go) and of the client of the        *)
(* provider (GitlabSCM).                                                   *)
(*                                                                         *)
(* The storage layer (database.GormDB) and assignments.FetchAssignments    *)
(* are not part of the sources at hand: their operations are modelled from *)
(* the specification and are the operators whose names start with Db, and  *)
(* FetchAssignments.                                                       *)
(***************************************************************************)
EXTENDS Integers, Sequences, FiniteSets, TLC

VARIABLES
    courses,          \* storage: course rows
    assignments,      \* storage: assignment rows, in insertion order
    submissions,      \* storage: submission rows
    benchmarks,       \* storage: grading benchmark rows
    criteria,         \* storage: grading criterion rows
    reviews,          \* storage: review rows
    nextBenchmarkID,  \* storage: next generated benchmark ID
    nextCriterionID,  \* storage: next generated criterion ID
    nextReviewID,     \* storage: next generated review ID
    lc,               \* loadCriteria: the locals and position of each request flow
    interrupted,      \* history: the assignments whose last import stopped mid-sequence,
                      \*          each with the reviews it had then
    sync,             \* updateAssignments: the last request and its outcome
    syncRuns,         \* number of updateAssignments requests made so far
    parseIn,          \* ParseAssignments: the arguments of the call
    parseOut,         \* ParseAssignments: what the call returned
    users,            \* storage: user rows, each with its remote identities
    groups,           \* storage: group rows
    enrollments,      \* storage: enrollment rows
    provider,         \* the provider: its directories and repositories
    cc,               \* CreateCourse: the locals and position of the request
    rpc,              \* the service: the last request, what it did and its response
    org,              \* GetOrganizations: the request, its context and the time
    scmCall,          \* GitlabSCM: the last call made to the client and what it returned
    rv,               \* createReview: the locals and position of each request flow
    grpc              \* GrpcManager: its user manager, the last promise and its callback

vars == <<courses, assignments, submissions, benchmarks, criteria, reviews,
          nextBenchmarkID, nextCriterionID, nextReviewID, lc, interrupted,
          sync, syncRuns, parseIn, parseOut,
          users, groups, enrollments, provider, cc, rpc, org, scmCall, rv, grpc>>

storageVars == <<courses, assignments, submissions, benchmarks, criteria, reviews,
                 nextBenchmarkID, nextCriterionID, nextReviewID>>

rubricVars == <<lc, interrupted>>

syncVars == <<sync, syncRuns>>

parseVars == <<parseIn, parseOut>>

reviewVars == <<rv>>

frontendVars == <<grpc>>

facadeVars == <<users, groups, enrollments, provider, cc, rpc, org, scmCall>>

(***************************************************************************)
(* Bounds of the model.                                                    *)
(***************************************************************************)
\* loadCriteria requests are accepted while the generated benchmark IDs are below this
MaxBenchmarkID == 2
\* reviews created in one behaviour (caps the generated review IDs)
MaxReviews == 1
\* entries of a directory given to ParseAssignments
MaxEntries == 2
\* updateAssignments requests made in one behaviour
MaxSyncRuns == 3

(***************************************************************************)
(* Numbers.  A Go uint64 that passes through a narrowing conversion is     *)
(* kept as its two 32-bit halves, value = hi * 2^32 + lo, so that          *)
(* uint32(x) is computed as the code computes it: it keeps the low half.   *)
(* The assignment ID of a descriptor is a Go uint, which has 64 bits on    *)
(* the 64-bit platforms the server is built for.                           *)
(***************************************************************************)
U64(h, l) == [hi |-> h, lo |-> l]

U(n) == U64(0, n)

Uint32Of(x) == x.lo

(***************************************************************************)
(* Text.  A string the code looks into is a sequence of one-character      *)
(* strings.                                                                *)
(***************************************************************************)
DigitChars == <<"0", "1", "2", "3", "4", "5", "6", "7", "8", "9">>

UpperChars == <<"A", "B", "C", "D", "E", "F", "G", "H", "I", "J", "K", "L", "M",
                "N", "O", "P", "Q", "R", "S", "T", "U", "V", "W", "X", "Y", "Z">>

LowerChars == <<"a", "b", "c", "d", "e", "f", "g", "h", "i", "j", "k", "l", "m",
                "n", "o", "p", "q", "r", "s", "t", "u", "v", "w", "x", "y", "z">>

IsDigitChar(c) == \E d \in 1..10 : DigitChars[d] = c

DigitValue(c) == (CHOOSE d \in 1..10 : DigitChars[d] = c) - 1

\* time.isDigit: the k-th character of s exists and is a digit
IsDigit(s, k) == k <= Len(s) /\ IsDigitChar(s[k])

DropFirst(s, n) == SubSeq(s, n + 1, Len(s))

\* strings.ToLower
ToLower(s) ==
    [k \in 1..Len(s) |->
        IF \E u \in 1..26 : UpperChars[u] = s[k]
        THEN LowerChars[CHOOSE u \in 1..26 : UpperChars[u] = s[k]]
        ELSE s[k]]

(***************************************************************************)
(* time.Parse("02-01-2006 15:04", value), as the Go library parses that    *)
(* layout, and tspb.TimestampProto.                                        *)
(***************************************************************************)
\* time.getnum: one or two digits; exactly two when fixed
Getnum(s, fixed) ==
    IF ~IsDigit(s, 1) THEN [ok |-> FALSE, n |-> 0, rest |-> s]
    ELSE IF ~IsDigit(s, 2)
         THEN IF fixed THEN [ok |-> FALSE, n |-> 0, rest |-> s]
              ELSE [ok |-> TRUE, n |-> DigitValue(s[1]), rest |-> DropFirst(s, 1)]
         ELSE [ok |-> TRUE, n |-> 10 * DigitValue(s[1]) + DigitValue(s[2]),
               rest |-> DropFirst(s, 2)]

RECURSIVE CutSpace(_)
\* time.cutspace: s without its leading spaces
CutSpace(s) == IF Len(s) > 0 /\ s[1] = " " THEN CutSpace(Tail(s)) ELSE s

\* time.skip for a one-character prefix: a space of the layout stands for any
\* number of spaces (or the end of the value), another character for itself
Skip(s, c) ==
    IF c = " "
    THEN IF Len(s) > 0 /\ s[1] # " " THEN [ok |-> FALSE, rest |-> s]
         ELSE [ok |-> TRUE, rest |-> CutSpace(s)]
    ELSE IF Len(s) = 0 \/ s[1] # c THEN [ok |-> FALSE, rest |-> s]
         ELSE [ok |-> TRUE, rest |-> Tail(s)]

\* the year of the layout (2006): four characters, all digits
GetYear(s) ==
    IF Len(s) < 4 \/ ~(\A k \in 1..4 : IsDigit(s, k))
    THEN [ok |-> FALSE, n |-> 0, rest |-> s]
    ELSE [ok |-> TRUE,
          n |-> 1000 * DigitValue(s[1]) + 100 * DigitValue(s[2])
                  + 10 * DigitValue(s[3]) + DigitValue(s[4]),
          rest |-> DropFirst(s, 4)]

IsLeap(year) == year % 4 = 0 /\ (year % 100 # 0 \/ year % 400 = 0)

\* time.daysIn
DaysIn(month, year) ==
    IF month = 2 THEN (IF IsLeap(year) THEN 29 ELSE 28)
    ELSE IF month \in {4, 6, 9, 11} THEN 30 ELSE 31

NoTime == [ok |-> FALSE, year |-> 0, month |-> 0, day |-> 0, hour |-> 0, min |-> 0]

\* the layout of unnamed/part_002:202, "02-01-2006 15:04", in the chunks time.Parse
\* takes it in
layout == <<"02", "-", "01", "-", "2006", " ", "15", ":", "04">>

\* time.Parse, one chunk of the layout: what is left of the value, and the time
\* with the field the chunk stands for
ParseChunk(std, s, t) ==
    LET number(g, inRange, field) ==
            [ok |-> g.ok /\ inRange, rest |-> g.rest, t |-> [t EXCEPT ![field] = g.n]]
        text(g) == [ok |-> g.ok, rest |-> g.rest, t |-> t]
        inMonth(n) == 0 < n /\ n <= 12
        inHour(n) == n < 24
        inMinute(n) == n < 60
    IN  IF std = "02" THEN number(Getnum(s, TRUE), TRUE, "day")
        ELSE IF std = "01" THEN
            LET month(g) == number(g, inMonth(g.n), "month") IN month(Getnum(s, TRUE))
        ELSE IF std = "2006" THEN number(GetYear(s), TRUE, "year")
        ELSE IF std = "15" THEN
            LET hour(g) == number(g, inHour(g.n), "hour") IN hour(Getnum(s, FALSE))
        ELSE IF std = "04" THEN
            LET minute(g) == number(g, inMinute(g.n), "min") IN minute(Getnum(s, TRUE))
        ELSE text(Skip(s, std))

RECURSIVE ParseLayout(_, _, _)
\* time.Parse, the loop over the chunks; after it, text left over is an error and
\* the day is checked against its month
ParseLayout(chunks, s, t) ==
    IF chunks = <<>>
    THEN IF Len(s) # 0 THEN NoTime
         ELSE IF t.day < 1 \/ t.day > DaysIn(t.month, t.year) THEN NoTime
         ELSE [t EXCEPT !.ok = TRUE]
    ELSE LET next(c) == IF ~c.ok THEN NoTime ELSE ParseLayout(Tail(chunks), c.rest, c.t)
         IN  next(ParseChunk(Head(chunks), s, t))

\* time.Parse(layout, value)
TimeParse(value) == ParseLayout(layout, value, NoTime)

\* days from 1970-01-01 to the civil date, for years from 1
DaysFromCivil(y, m, d) ==
    LET yy  == IF m <= 2 THEN y - 1 ELSE y
        era == yy \div 400
        yoe == yy - era * 400
        mp  == IF m > 2 THEN m - 3 ELSE m + 9
        doy == (153 * mp + 2) \div 5 + d - 1
        doe == yoe * 365 + yoe \div 4 - yoe \div 100 + doy
    IN  era * 146097 + doe - 719468

\* Time.Unix of a UTC time
UnixSeconds(t) ==
    DaysFromCivil(t.year, t.month, t.day) * 86400 + t.hour * 3600 + t.min * 60

\* tspb.TimestampProto: times before 0001-01-01 are not valid timestamps
TimestampProto(t) ==
    IF t.year < 1 THEN [ok |-> FALSE, Seconds |-> 0, Nanos |-> 0]
    ELSE [ok |-> TRUE, Seconds |-> UnixSeconds(t), Nanos |-> 0]

(***************************************************************************)
(* ParseAssignments (unnamed/part_002:177-231).  A directory is the list   *)
(* of the entries filepath.Walk visits, in the order it visits them; an    *)
(* entry is its base name, whether it is a directory, whether it can be    *)
(* read, whether it decodes as YAML, and the assignmentData it decodes to. *)
(***************************************************************************)
target == "assignment.yml"

Chars20240901at2359 ==
    <<"0","1","-","0","9","-","2","0","2","4"," ","2","3",":","5","9">>

Chars20240229at0905 ==
    <<"2","9","-","0","2","-","2","0","2","4"," ","0","9",":","0","5">>

Chars20241231at0000 ==
    <<"3","1","-","1","2","-","2","0","2","4"," ","0","0",":","0","0">>

\* one digit for the hour: not the fixed-width format, and time.Parse takes it
CharsShortHour ==
    <<"0","1","-","0","9","-","2","0","2","4"," ","9",":","0","5">>

\* year first
CharsYearFirst ==
    <<"2","0","2","4","-","0","9","-","0","1"," ","2","3",":","5","9">>

\* the 30th of February
CharsNoSuchDay ==
    <<"3","0","-","0","2","-","2","0","2","4"," ","1","0",":","0","0">>

NoData ==
    [AssignmentID |-> U(0), Name |-> "", Language |-> <<>>, Deadline |-> <<>>,
     AutoApprove |-> FALSE, IsGroupLab |-> FALSE]

Descriptor(data) ==
    [base |-> target, isDir |-> FALSE, readable |-> TRUE, yamlOk |-> TRUE, data |-> data]

\* lab1/assignment.yml of the specification's example
Lab1 ==
    Descriptor([AssignmentID |-> U(1), Name |-> "Lab 1", Language |-> <<"g","o">>,
                Deadline |-> Chars20240901at2359,
                AutoApprove |-> TRUE, IsGroupLab |-> FALSE])

\* a language in mixed case, a deadline on a leap day
Lab2 ==
    Descriptor([AssignmentID |-> U(2), Name |-> "Lab 2", Language |-> <<"J","a","v","a">>,
                Deadline |-> Chars20240229at0905,
                AutoApprove |-> FALSE, IsGroupLab |-> TRUE])

\* assignment 1 again, renamed and with another deadline
Lab1Renamed ==
    Descriptor([AssignmentID |-> U(1), Name |-> "Lab 1b", Language |-> <<"G","O">>,
                Deadline |-> Chars20241231at0000,
                AutoApprove |-> FALSE, IsGroupLab |-> FALSE])

\* assignmentid: 4294967297, which is 2^32 + 1
LabWide ==
    Descriptor([AssignmentID |-> U64(1, 1), Name |-> "Lab W", Language |-> <<"g","o">>,
                Deadline |-> Chars20241231at0000,
                AutoApprove |-> FALSE, IsGroupLab |-> FALSE])

LabShortHour ==
    Descriptor([Lab2.data EXCEPT !.AssignmentID = U(3), !.Deadline = CharsShortHour])

LabYearFirst ==
    Descriptor([Lab2.data EXCEPT !.AssignmentID = U(4), !.Deadline = CharsYearFirst])

LabNoSuchDay ==
    Descriptor([Lab2.data EXCEPT !.AssignmentID = U(5), !.Deadline = CharsNoSuchDay])

LabUnreadable ==
    [base |-> target, isDir |-> FALSE, readable |-> FALSE, yamlOk |-> FALSE, data |-> NoData]

LabNotYaml ==
    [base |-> target, isDir |-> FALSE, readable |-> TRUE, yamlOk |-> FALSE, data |-> NoData]

LabDir ==
    [base |-> "lab1", isDir |-> TRUE, readable |-> TRUE, yamlOk |-> FALSE, data |-> NoData]

Readme ==
    [base |-> "README.md", isDir |-> FALSE, readable |-> TRUE, yamlOk |-> FALSE,
     data |-> NoData]

\* a directory that has the name of a descriptor
DirNamedTarget ==
    [base |-> target, isDir |-> TRUE, readable |-> TRUE, yamlOk |-> FALSE, data |-> NoData]

\* unnamed/part_002:211-220: the assignment of a decoded descriptor
NewAssignment(data, courseID, deadline) ==
    [ID |-> data.AssignmentID,
     CourseID |-> courseID,
     Deadline |-> deadline,
     Language |-> ToLower(data.Language),
     Name |-> data.Name,
     Order |-> Uint32Of(data.AssignmentID),
     AutoApprove |-> data.AutoApprove,
     IsGroupLab |-> data.IsGroupLab]

\* unnamed/part_002:186-226: the walk function, for one entry: the error it
\* returns, or the assignments it appends
Visit(entry, courseID) ==
    IF entry.isDir \/ entry.base # target
    THEN [err |-> FALSE, cause |-> "none", new |-> <<>>]
    ELSE IF ~entry.readable THEN [err |-> TRUE, cause |-> "ReadFile", new |-> <<>>]
    ELSE IF ~entry.yamlOk THEN [err |-> TRUE, cause |-> "Unmarshal", new |-> <<>>]
    ELSE LET converted(deadline) ==
                 IF ~deadline.ok
                 THEN [err |-> TRUE, cause |-> "TimestampProto", new |-> <<>>]
                 ELSE [err |-> FALSE, cause |-> "none",
                       new |-> <<NewAssignment(entry.data, courseID,
                                    [Seconds |-> deadline.Seconds,
                                     Nanos |-> deadline.Nanos])>>]
             parsed(d) ==
                 IF ~d.ok THEN [err |-> TRUE, cause |-> "Parse", new |-> <<>>]
                 ELSE converted(TimestampProto(d))
         IN  parsed(TimeParse(entry.data.Deadline))

RECURSIVE Walk(_, _, _)
\* filepath.Walk with the walk function: it stops at the first error; visited counts
\* the entries the walk function was called for
Walk(entries, courseID, acc) ==
    IF entries = <<>>
    THEN [err |-> FALSE, cause |-> "none", assignments |-> acc, visited |-> 0]
    ELSE LET counted(w) == [w EXCEPT !.visited = @ + 1]
             visited(v) ==
                 IF v.err
                 THEN [err |-> TRUE, cause |-> v.cause, assignments |-> acc, visited |-> 1]
                 ELSE counted(Walk(Tail(entries), courseID, acc \o v.new))
         IN  visited(Visit(Head(entries), courseID))

\* a parse that returns what it has collected together with the error
ParseAssignments_partial(dir, courseID) ==
    IF ~dir.exists
    THEN [err |-> TRUE, cause |-> "NotExist", assignments |-> <<>>, visited |-> 0]
    ELSE Walk(dir.entries, courseID, <<>>)

\* a parse that walks the directory without looking whether it exists
ParseAssignments_noStat(dir, courseID) ==
    LET walked(w) ==
            IF w.err THEN [w EXCEPT !.assignments = <<>>]
            ELSE w
    IN  walked(Walk(dir.entries, courseID, <<>>))

\* unnamed/part_002:179-231: os.Stat answers for a directory that does not exist with
\* an error that os.IsNotExist holds of, and the call returns it before the walk
ParseAssignments(dir, courseID) ==
    IF ~dir.exists
    THEN [err |-> TRUE, cause |-> "NotExist", assignments |-> <<>>, visited |-> 0]
    ELSE LET walked(w) ==
                 IF w.err THEN [w EXCEPT !.assignments = <<>>]
                 ELSE w
         IN  walked(Walk(dir.entries, courseID, <<>>))

(***************************************************************************)
(* Storage.  Rows are records; generated IDs start at 1 and are never      *)
(* reused.  A query matches on its non-zero fields.                        *)
(***************************************************************************)
RECURSIVE SeqByID(_)
\* the rows of S in the order of their IDs
SeqByID(S) ==
    IF S = {} THEN <<>>
    ELSE LET m == CHOOSE x \in S : \A y \in S : x.ID <= y.ID
         IN  <<m>> \o SeqByID(S \ {m})

\* the criteria rows of benchmark b, as the list a benchmark is loaded with
CriteriaOf(b) == SeqByID({c \in criteria : c.BenchmarkID = b.ID})

\* the benchmarks of assignment aid, each loaded with its criteria
GradingBenchmarksOf(aid) ==
    LET rows == SeqByID({b \in benchmarks : b.AssignmentID = aid})
    IN  [k \in 1..Len(rows) |->
            [ID |-> rows[k].ID, AssignmentID |-> rows[k].AssignmentID,
             Heading |-> rows[k].Heading, Criteria |-> CriteriaOf(rows[k])]]

MatchesAssignment(row, query) ==
    /\ (query.ID = U(0) \/ row.ID = query.ID)
    /\ (query.CourseID = 0 \/ row.CourseID = query.CourseID)

\* db.GetAssignment: the first matching row, loaded with its benchmarks
DbGetAssignment(query) ==
    LET hits == {k \in 1..Len(assignments) : MatchesAssignment(assignments[k], query)}
    IN  IF hits = {} THEN [found |-> FALSE]
        ELSE LET k == CHOOSE x \in hits : \A y \in hits : x <= y
             IN  [found |-> TRUE,
                  row |-> assignments[k],
                  GradingBenchmarks |-> GradingBenchmarksOf(assignments[k].ID)]

\* db.GetCourse
DbGetCourse(courseID) ==
    LET hits == {c \in courses : c.ID = courseID}
    IN  IF hits = {} THEN [found |-> FALSE]
        ELSE [found |-> TRUE, row |-> CHOOSE c \in hits : TRUE]

\* db.GetSubmission: the submission loaded with its reviews
DbGetSubmission(query) ==
    LET hits == {s \in submissions : s.ID = query.ID}
    IN  IF hits = {} THEN [found |-> FALSE]
        ELSE LET s == CHOOSE x \in hits : TRUE
             IN  [found |-> TRUE, row |-> s,
                  Reviews |-> {r \in reviews : r.SubmissionID = s.ID}]

\* db.GetSubmissions: the submissions of an assignment
DbGetSubmissions(query) ==
    SeqByID({s \in submissions : s.AssignmentID = query.AssignmentID})

\* db.DeleteCriterion: the criteria rows left
DbDeleteCriterion(c) == {x \in criteria : x.ID # c.ID}

\* db.DeleteBenchmark: the benchmark rows left
DbDeleteBenchmark(bm) == {x \in benchmarks : x.ID # bm.ID}

\* db.DeleteReview: the review rows left
DbDeleteReview(query) == {r \in reviews : r.SubmissionID # query.SubmissionID}

\* db.CreateBenchmark: the row inserted for bm, with its generated ID
DbCreateBenchmark(bm) ==
    [ID |-> nextBenchmarkID, AssignmentID |-> bm.AssignmentID, Heading |-> bm.Heading]

\* db.CreateCriterion: the row inserted for c, with its generated ID
DbCreateCriterion(c) ==
    [ID |-> nextCriterionID, BenchmarkID |-> c.BenchmarkID, Description |-> c.Description]

\* db.CreateReview: the row inserted for query, with its generated ID
DbCreateReview(query) ==
    [ID |-> nextReviewID, SubmissionID |-> query.SubmissionID]

\* the row of a parsed assignment met for the first time
NewAssignmentRow(a) ==
    [ID |-> a.ID, CourseID |-> a.CourseID, Deadline |-> a.Deadline,
     Language |-> a.Language, Name |-> a.Name, Order |-> a.Order,
     AutoApprove |-> a.AutoApprove, IsGroupLab |-> a.IsGroupLab, Reviewers |-> 0]

\* the upsert of one parsed assignment: the row with its (CourseID, ID) is updated
\* in place, keeping what the descriptor does not carry; without one, a row is added
DbUpsertAssignment(rows, a) ==
    LET hits == {k \in 1..Len(rows) : rows[k].ID = a.ID /\ rows[k].CourseID = a.CourseID}
    IN  IF hits = {} THEN Append(rows, NewAssignmentRow(a))
        ELSE LET k == CHOOSE x \in hits : \A y \in hits : x <= y
             IN  [rows EXCEPT ![k] =
                    [NewAssignmentRow(a) EXCEPT !.Reviewers = rows[k].Reviewers]]

RECURSIVE DbUpdateAssignments(_, _)
\* db.UpdateAssignments: the rows after the upsert of the list, one by one
DbUpdateAssignments(rows, list) ==
    IF list = <<>> THEN rows
    ELSE DbUpdateAssignments(DbUpsertAssignment(rows, Head(list)), Tail(list))

\* assignments.FetchAssignments: the tests repository of the course is cloned and
\* the clone is parsed
FetchAssignments(course, remote) ==
    IF ~remote.cloned
    THEN [err |-> TRUE, cause |-> "Clone", assignments |-> <<>>, visited |-> 0]
    ELSE ParseAssignments(remote.dir, course.ID)

(***************************************************************************)
(* The criteria.json files the tests repository may hold, and what         *)
(* GetFileContent and json.Unmarshal make of them.                         *)
(***************************************************************************)
criteriaFile == "criteria.json"

JsonCriterion(d) == [Description |-> d, BenchmarkID |-> 0]

\* two benchmarks, the second without criteria
RubricA ==
    << [Heading |-> "A1", AssignmentID |-> U(0),
        Criteria |-> <<JsonCriterion("a11"), JsonCriterion("a12")>>],
       [Heading |-> "A2", AssignmentID |-> U(0), Criteria |-> <<>>] >>

\* one benchmark, whose JSON names another assignment and another benchmark
RubricB ==
    << [Heading |-> "B1", AssignmentID |-> U(2),
        Criteria |-> <<[Description |-> "b11", BenchmarkID |-> 1]>>] >>

\* the outcomes of sc.GetFileContent: an error, or the text of the file, which
\* is well-formed JSON (the document) or is not
FileContents ==
    { [fetched |-> FALSE, wellFormed |-> FALSE, doc |-> <<>>],
      [fetched |-> TRUE,  wellFormed |-> FALSE, doc |-> <<>>],
      [fetched |-> TRUE,  wellFormed |-> TRUE,  doc |-> RubricA],
      [fetched |-> TRUE,  wellFormed |-> TRUE,  doc |-> RubricB] }

NoFile == [fetched |-> FALSE, wellFormed |-> FALSE, doc |-> <<>>]

\* json.Unmarshal into []*pb.GradingBenchmark: fields the JSON does not carry are zero
JsonUnmarshal(file) ==
    IF ~file.wellFormed THEN [ok |-> FALSE, benchmarks |-> <<>>]
    ELSE [ok |-> TRUE,
          benchmarks |->
            [k \in 1..Len(file.doc) |->
                [ID |-> 0, AssignmentID |-> file.doc[k].AssignmentID,
                 Heading |-> file.doc[k].Heading,
                 Criteria |->
                    [m \in 1..Len(file.doc[k].Criteria) |->
                        [ID |-> 0,
                         BenchmarkID |-> file.doc[k].Criteria[m].BenchmarkID,
                         Description |-> file.doc[k].Criteria[m].Description]]]]]

(***************************************************************************)
(* loadCriteria (assignments.go:83-127) and removeOldCriteriaAndReviews    *)
(* (assignments.go:157-178), one step per storage call.  A flow is the     *)
(* locals of one request: pc names the storage call it is about to make.   *)
(***************************************************************************)
Procs == {1, 2}

IdleFlow ==
    [pc |-> "idle",
     request |-> [AssignmentID |-> U(0), CourseID |-> 0],
     assignment |-> [ID |-> U(0), Name |-> "", GradingBenchmarks |-> <<>>],
     criteriaString |-> NoFile,
     benchmarks |-> <<>>,
     submissions |-> <<>>,
     i |-> 0, j |-> 0,
     result |-> "none", err |-> "none",
     printed |-> 0]

\* the requests made: the two assignments of the course, and one that does not exist
LoadCriteriaRequests ==
    { [AssignmentID |-> U(1), CourseID |-> 1],
      [AssignmentID |-> U(2), CourseID |-> 1],
      [AssignmentID |-> U(3), CourseID |-> 1] }

\* return nil, err
Fail(f, cause) == [f EXCEPT !.pc = "done", !.result = "err", !.err = cause]

\* assignments.go:113 and 126: the next benchmark to create, or return benchmarks, nil
InsertionAt(f, i) ==
    IF i > Len(f.benchmarks)
    THEN [f EXCEPT !.pc = "done", !.result = "ok", !.i = 0, !.j = 0]
    ELSE [f EXCEPT !.pc = "CreateBenchmark", !.i = i, !.j = 0]

\* assignments.go:118: the next criterion of benchmark i to create, or the next benchmark
CriterionInsertionAt(f, i, j) ==
    IF j > Len(f.benchmarks[i].Criteria)
    THEN InsertionAt(f, i + 1)
    ELSE [f EXCEPT !.pc = "CreateCriterion", !.i = i, !.j = j]

\* assignments.go:172 and 177: the next review deletion, or return nil to loadCriteria
ReviewRemovalAt(f, i) ==
    IF i > Len(f.submissions)
    THEN InsertionAt(f, 1)
    ELSE [f EXCEPT !.pc = "DeleteReview", !.i = i, !.j = 0]

\* assignments.go:158-159: the deletions of old benchmark i, or on to the submissions
RemovalAt(f, i) ==
    IF i > Len(f.assignment.GradingBenchmarks)
    THEN [f EXCEPT !.pc = "GetSubmissions", !.i = 0, !.j = 0]
    ELSE IF Len(f.assignment.GradingBenchmarks[i].Criteria) > 0
         THEN [f EXCEPT !.pc = "DeleteCriterion", !.i = i, !.j = 1]
         ELSE [f EXCEPT !.pc = "DeleteBenchmark", !.i = i, !.j = 0]

\* assignments.go:159: the next criterion of old benchmark i to delete, or the benchmark
CriterionRemovalAt(f, i, j) ==
    IF j > Len(f.assignment.GradingBenchmarks[i].Criteria)
    THEN [f EXCEPT !.pc = "DeleteBenchmark", !.i = i, !.j = 0]
    ELSE [f EXCEPT !.pc = "DeleteCriterion", !.i = i, !.j = j]

\* assignments.go:107-111: the old rubric is removed only if the assignment has benchmarks
Gate(f) ==
    IF Len(f.assignment.GradingBenchmarks) > 0 THEN RemovalAt(f, 1) ELSE InsertionAt(f, 1)

\* a decode that goes on with whatever was decoded
Decode_ignoreError(f) ==
    Gate([f EXCEPT !.benchmarks = JsonUnmarshal(f.criteriaString).benchmarks])

\* assignments.go:102-105
Decode(f) ==
    LET d == JsonUnmarshal(f.criteriaString)
    IN  IF ~d.ok THEN Fail(f, "Unmarshal")
        ELSE Gate([f EXCEPT !.benchmarks = d.benchmarks])

\* assignments.go:85-100: the assignment with its course, then the file
Read(f, file) ==
    LET got == DbGetAssignment([ID |-> f.request.AssignmentID,
                                CourseID |-> f.request.CourseID])
        course == IF got.found THEN DbGetCourse(got.row.CourseID) ELSE [found |-> FALSE]
    IN  IF ~got.found \/ ~course.found THEN Fail(f, "getAssignmentWithCourse")
        ELSE LET f1 == [f EXCEPT !.assignment =
                            [ID |-> got.row.ID, Name |-> got.row.Name,
                             GradingBenchmarks |-> got.GradingBenchmarks]]
             IN  IF ~file.fetched THEN Fail(f1, "GetFileContent")
                 ELSE Decode([f1 EXCEPT !.criteriaString = file])

\* the flow has made the first deletion of an old rubric and has not returned success
PastFirstDelete(f) ==
    /\ Len(f.assignment.GradingBenchmarks) > 0
    /\ f.result # "ok"
    /\ ~(f.pc = RemovalAt(f, 1).pc /\ f.i = 1 /\ f.j = RemovalAt(f, 1).j)

\* the reviews of the submissions of assignment aid
ReviewsOfAssignment(aid) ==
    {r \in reviews : \E s \in submissions : s.ID = r.SubmissionID /\ s.AssignmentID = aid}

\* history: the import of assignment aid stops here, with these reviews in storage
Interrupt(aid) ==
    {e \in interrupted : e.ID # aid}
        \cup {[ID |-> aid, reviews |-> {r.ID : r \in ReviewsOfAssignment(aid)}]}

\* the flow of p becomes f; an error return that follows the first deletion leaves
\* the import interrupted
Continue(p, f) ==
    /\ lc' = [lc EXCEPT ![p] = f]
    /\ interrupted' = IF f.pc = "done" /\ PastFirstDelete(f)
                      THEN Interrupt(f.assignment.ID)
                      ELSE interrupted

\* a request arrives: everything up to the first storage write
loadCriteria(p) ==
    /\ lc[p].pc = "idle"
    /\ nextBenchmarkID <= MaxBenchmarkID
    /\ \E request \in LoadCriteriaRequests, file \in FileContents :
          lc' = [lc EXCEPT ![p] = Read([IdleFlow EXCEPT !.request = request], file)]
    /\ UNCHANGED <<storageVars, interrupted, syncVars, parseVars,
                   reviewVars, frontendVars, facadeVars>>

\* assignments.go:160-162: a failed deletion is printed and the loop goes on
DeleteCriterion(p) ==
    /\ lc[p].pc = "DeleteCriterion"
    /\ LET f == lc[p]
           c == f.assignment.GradingBenchmarks[f.i].Criteria[f.j]
       IN  \/ /\ criteria' = DbDeleteCriterion(c)
              /\ Continue(p, CriterionRemovalAt(f, f.i, f.j + 1))
           \/ /\ criteria' = criteria
              /\ Continue(p, CriterionRemovalAt([f EXCEPT !.printed = @ + 1], f.i, f.j + 1))
    /\ UNCHANGED <<courses, assignments, submissions, benchmarks, reviews,
                   nextBenchmarkID, nextCriterionID, nextReviewID, syncVars, parseVars,
                   reviewVars, frontendVars, facadeVars>>

\* assignments.go:164-166: a failed deletion is printed and the loop goes on
DeleteBenchmark(p) ==
    /\ lc[p].pc = "DeleteBenchmark"
    /\ LET f == lc[p]
           bm == f.assignment.GradingBenchmarks[f.i]
       IN  \/ /\ benchmarks' = DbDeleteBenchmark(bm)
              /\ Continue(p, RemovalAt(f, f.i + 1))
           \/ /\ benchmarks' = benchmarks
              /\ Continue(p, RemovalAt([f EXCEPT !.printed = @ + 1], f.i + 1))
    /\ UNCHANGED <<courses, assignments, submissions, criteria, reviews,
                   nextBenchmarkID, nextCriterionID, nextReviewID, syncVars, parseVars,
                   reviewVars, frontendVars, facadeVars>>

\* assignments.go:168-171 (and 108-110 for the error)
GetSubmissions(p) ==
    /\ lc[p].pc = "GetSubmissions"
    /\ LET f == lc[p]
       IN  \/ Continue(p, ReviewRemovalAt(
                  [f EXCEPT !.submissions =
                        DbGetSubmissions([AssignmentID |-> f.assignment.ID])], 1))
           \/ Continue(p, Fail(f, "GetSubmissions"))
    /\ UNCHANGED <<storageVars, syncVars, parseVars,
                   reviewVars, frontendVars, facadeVars>>

\* assignments.go:172-176 (and 108-110 for the error)
DeleteReview(p) ==
    /\ lc[p].pc = "DeleteReview"
    /\ LET f == lc[p]
           submission == f.submissions[f.i]
       IN  \/ /\ reviews' = DbDeleteReview([SubmissionID |-> submission.ID])
              /\ Continue(p, ReviewRemovalAt(f, f.i + 1))
           \/ /\ reviews' = reviews
              /\ Continue(p, Fail(f, "DeleteReview"))
    /\ UNCHANGED <<courses, assignments, submissions, benchmarks, criteria,
                   nextBenchmarkID, nextCriterionID, nextReviewID, syncVars, parseVars,
                   reviewVars, frontendVars, facadeVars>>

\* assignments.go:114
BenchmarkToCreate(f) == [f.benchmarks[f.i] EXCEPT !.AssignmentID = f.assignment.ID]

\* a criterion that keeps the benchmark its JSON named
CriterionToCreate_keepJSON(f) == f.benchmarks[f.i].Criteria[f.j]

\* assignments.go:119
CriterionToCreate(f) ==
    [f.benchmarks[f.i].Criteria[f.j] EXCEPT !.BenchmarkID = f.benchmarks[f.i].ID]

\* assignments.go:114-117: db.CreateBenchmark stores the generated ID in bm
CreateBenchmark(p) ==
    /\ lc[p].pc = "CreateBenchmark"
    /\ LET f == lc[p]
           bm == BenchmarkToCreate(f)
           row == DbCreateBenchmark(bm)
       IN  \/ /\ benchmarks' = benchmarks \cup {row}
              /\ nextBenchmarkID' = nextBenchmarkID + 1
              /\ Continue(p, CriterionInsertionAt(
                    [f EXCEPT !.benchmarks[f.i] = [bm EXCEPT !.ID = row.ID]], f.i, 1))
           \/ /\ UNCHANGED <<benchmarks, nextBenchmarkID>>
              /\ Continue(p, Fail([f EXCEPT !.benchmarks[f.i] = bm], "CreateBenchmark"))
    /\ UNCHANGED <<courses, assignments, submissions, criteria, reviews,
                   nextCriterionID, nextReviewID, syncVars, parseVars,
                   reviewVars, frontendVars, facadeVars>>

\* assignments.go:119-122: db.CreateCriterion stores the generated ID in c
CreateCriterion(p) ==
    /\ lc[p].pc = "CreateCriterion"
    /\ LET f == lc[p]
           c == CriterionToCreate(f)
           row == DbCreateCriterion(c)
       IN  \/ /\ criteria' = criteria \cup {row}
              /\ nextCriterionID' = nextCriterionID + 1
              /\ Continue(p, CriterionInsertionAt(
                    [f EXCEPT !.benchmarks[f.i].Criteria[f.j] = [c EXCEPT !.ID = row.ID]],
                    f.i, f.j + 1))
           \/ /\ UNCHANGED <<criteria, nextCriterionID>>
              /\ Continue(p, Fail([f EXCEPT !.benchmarks[f.i].Criteria[f.j] = c],
                                  "CreateCriterion"))
    /\ UNCHANGED <<courses, assignments, submissions, benchmarks, reviews,
                   nextBenchmarkID, nextReviewID, syncVars, parseVars,
                   reviewVars, frontendVars, facadeVars>>

\* the caller has the result; a completed import is no longer an interrupted one
Return(p) ==
    /\ lc[p].pc = "done"
    /\ lc' = [lc EXCEPT ![p] = IdleFlow]
    /\ interrupted' = IF lc[p].result = "ok"
                      THEN {e \in interrupted : e.ID # lc[p].assignment.ID}
                      ELSE interrupted
    /\ UNCHANGED <<storageVars, syncVars, parseVars,
                   reviewVars, frontendVars, facadeVars>>

\* the process stops between two storage calls of the import
Crash(p) ==
    /\ lc[p].pc \notin {"idle", "done"}
    /\ lc' = [lc EXCEPT ![p] = IdleFlow]
    /\ interrupted' = IF PastFirstDelete(lc[p])
                      THEN Interrupt(lc[p].assignment.ID)
                      ELSE interrupted
    /\ UNCHANGED <<storageVars, syncVars, parseVars,
                   reviewVars, frontendVars, facadeVars>>

\* assignments.go:129-147: a review is created while the submission has fewer
\* reviews than its assignment has reviewers
createReview ==
    /\ nextReviewID <= MaxReviews
    /\ \E query \in {[SubmissionID |-> s.ID] : s \in submissions} :
          LET submission == DbGetSubmission([ID |-> query.SubmissionID])
              assignment == DbGetAssignment([ID |-> submission.row.AssignmentID,
                                             CourseID |-> 0])
          IN  /\ submission.found
              /\ assignment.found
              /\ ~(Cardinality(submission.Reviews) >= assignment.row.Reviewers)
              /\ reviews' = reviews \cup {DbCreateReview(query)}
              /\ nextReviewID' = nextReviewID + 1
    /\ UNCHANGED <<courses, assignments, submissions, benchmarks, criteria,
                   nextBenchmarkID, nextCriterionID, rubricVars, syncVars, parseVars,
                   reviewVars, frontendVars, facadeVars>>

(***************************************************************************)
(* The rubric import, one request at a time: a course with two assignments *)
(* and a submission to each; the first assignment has the rubric of an     *)
(* earlier import (one benchmark with one criterion), the second has none. *)
(***************************************************************************)
NoRemote == [directories |-> {}, repositories |-> {}, nextID |-> 1]

IdleCreateCourse ==
    [pc |-> "idle", in |-> [Provider |-> "", Name |-> "", CourseCreatorID |-> 0],
     asked |-> 0, usr |-> 0, directory |-> 0, paths |-> <<>>,
     result |-> "none", code |-> "none"]

NoRpc ==
    [op |-> "none", caller |-> 0, in |-> [ID |-> 0], steps |-> <<>>,
     result |-> "none", code |-> "none", text |-> "",
     cause |-> [kind |-> "none", code |-> "OK", text |-> ""],
     body |-> {}, Assignments |-> <<>>]

\* a pointer is a record with the flag set, nil is one without
NilDirectory == [set |-> FALSE, ID |-> 0, Path |-> ""]

\* no createReview request
IdleReview ==
    [pc |-> "idle", query |-> [SubmissionID |-> 0], found |-> FALSE,
     seen |-> 0, reviewers |-> 0, result |-> "none", created |-> 0]

\* null in TypeScript, for a user and for an error
Null == [null |-> TRUE, id |-> 0, code |-> 0, message |-> ""]

\* a GrpcManager as its constructor leaves it (part_002:269-277): userMan is not
\* assigned, and no promise was made
NoClient ==
    [userMan |-> [defined |-> FALSE, currentUser |-> Null],
     promise |-> "none", method |-> "", header |-> "", fired |-> 0, settled |-> 0,
     err |-> Null, response |-> 0,
     value |-> [code |-> 0, error |-> "", hasData |-> FALSE, data |-> 0],
     logged |-> 0]

NoCall ==
    [op |-> "none", opt |-> [Path |-> "", Directory |-> NilDirectory], answered |-> FALSE,
     panic |-> FALSE, requested |-> FALSE, err |-> "none", made |-> FALSE,
     requests |-> 0, failure |-> "none"]

IdleOrganizations ==
    [pc |-> "idle", now |-> 0, start |-> 0, end |-> 0, caller |-> 0,
     ctx |-> [hasDeadline |-> FALSE, deadline |-> 0],
     result |-> "none", code |-> "none", body |-> {}]

NoSync ==
    [courseID |-> 0, remote |-> [cloned |-> FALSE, dir |-> [exists |-> FALSE, entries |-> <<>>]],
     result |-> "none", repeated |-> FALSE]

InitStorage ==
    /\ courses = {[ID |-> 1, OrganizationPath |-> "org"]}
    /\ assignments =
          LET withReviewers(rows) ==
                  [k \in 1..Len(rows) |-> [rows[k] EXCEPT !.Reviewers = 1]]
          IN  withReviewers(DbUpdateAssignments(<<>>,
                  ParseAssignments([exists |-> TRUE, entries |-> <<Lab1, Lab2>>],
                                   1).assignments))
    /\ submissions = { [ID |-> 1, AssignmentID |-> U(1)],
                       [ID |-> 2, AssignmentID |-> U(2)] }
    /\ benchmarks = {[ID |-> 1, AssignmentID |-> U(1), Heading |-> "O1"]}
    /\ criteria = {[ID |-> 1, BenchmarkID |-> 1, Description |-> "o11"]}
    /\ reviews = {}
    /\ nextBenchmarkID = 2
    /\ nextCriterionID = 2
    /\ nextReviewID = 1

\* no request to the service, an empty provider, no user
InitFacadeIdle ==
    /\ users = {}
    /\ groups = {}
    /\ enrollments = {}
    /\ provider = NoRemote
    /\ cc = IdleCreateCourse
    /\ rpc = NoRpc
    /\ org = IdleOrganizations
    /\ scmCall = NoCall
    /\ rv = [p \in Procs |-> IdleReview]
    /\ grpc = NoClient

InitIdle ==
    /\ InitFacadeIdle
    /\ lc = [p \in Procs |-> IdleFlow]
    /\ interrupted = {}
    /\ sync = NoSync
    /\ syncRuns = 0
    /\ parseIn = [dir |-> [exists |-> FALSE, entries |-> <<>>], courseID |-> 0]
    /\ parseOut = [returned |-> FALSE, err |-> FALSE, cause |-> "none",
                   assignments |-> <<>>, visited |-> 0]

InitRubric == InitStorage /\ InitIdle

AllIdle == \A p \in Procs : lc[p].pc = "idle"

NextRubric ==
    \/ loadCriteria(1)
    \/ DeleteCriterion(1)
    \/ DeleteBenchmark(1)
    \/ GetSubmissions(1)
    \/ DeleteReview(1)
    \/ CreateBenchmark(1)
    \/ CreateCriterion(1)
    \/ Return(1)
    \/ Crash(1)
    \/ (AllIdle /\ createReview)

SpecRubric == InitRubric /\ [][NextRubric]_vars

(***************************************************************************)
(* Properties of the rubric import.                                        *)
(***************************************************************************)
\* the rubric persisted for the flow's assignment is the one it was loaded with
PersistedIsOld(f) ==
    GradingBenchmarksOf(f.assignment.ID) = f.assignment.GradingBenchmarks

\* the rubric persisted for the flow's assignment is the list loadCriteria returns:
\* every parsed benchmark and criterion, with its generated ID, and nothing else
PersistedIsNew(f) ==
    GradingBenchmarksOf(f.assignment.ID) = f.benchmarks

\* the rows of the rubric the flow's assignment was loaded with
OldBenchmarkIDs(f) ==
    {f.assignment.GradingBenchmarks[k].ID : k \in 1..Len(f.assignment.GradingBenchmarks)}

OldCriterionIDs(f) ==
    UNION { {f.assignment.GradingBenchmarks[k].Criteria[m].ID :
                m \in 1..Len(f.assignment.GradingBenchmarks[k].Criteria)} :
            k \in 1..Len(f.assignment.GradingBenchmarks) }

\* C1: when loadCriteria has returned (success or error) for an assignment that had
\* benchmarks, the persisted rubric of the assignment is exactly the old rubric or
\* exactly the new one, never a part or a mixture.
C1_AllOrNothing ==
    \A p \in Procs :
        (lc[p].pc = "done" /\ Len(lc[p].assignment.GradingBenchmarks) > 0)
            => (PersistedIsOld(lc[p]) \/ PersistedIsNew(lc[p]))

\* C2: when loadCriteria has returned successfully for an assignment that had N >= 1
\* benchmarks, the persisted rubric is exactly the newly parsed one, no benchmark or
\* criterion of the old rubric remains, and no review remains for a submission of
\* the assignment.
C2_SuccessReplaces ==
    \A p \in Procs :
        (lc[p].pc = "done" /\ lc[p].result = "ok"
            /\ Len(lc[p].assignment.GradingBenchmarks) >= 1)
            => /\ PersistedIsNew(lc[p])
               /\ \A b \in benchmarks : b.ID \notin OldBenchmarkIDs(lc[p])
               /\ \A c \in criteria : c.ID \notin OldCriterionIDs(lc[p])
               /\ ReviewsOfAssignment(lc[p].assignment.ID) = {}

\* C3: when an import of an assignment was interrupted (a crash or an error return
\* after its first deletion) and a later run of loadCriteria on it completes with no
\* failing call, the assignment holds exactly the new rubric, and none of the reviews
\* its submissions had at the interruption remains.
C3_RerunRecovers ==
    \A p \in Procs : \A e \in interrupted :
        (lc[p].pc = "done" /\ lc[p].result = "ok" /\ lc[p].printed = 0
            /\ lc[p].assignment.ID = e.ID)
            => /\ PersistedIsNew(lc[p])
               /\ \A r \in reviews : r.ID \notin e.reviews

\* C9: a flow whose criteria file could not be fetched or did not decode has returned
\* an error, and no step taken with such a flow changes a benchmark, a criterion or
\* a review (or generates an ID).
C9_BadFileLeavesStorage ==
    [][\A p \in Procs :
          (lc'[p].pc # "idle"
              /\ ~(lc'[p].criteriaString.fetched /\ lc'[p].criteriaString.wellFormed))
          => /\ lc'[p].pc = "done"
             /\ lc'[p].result = "err"
             /\ UNCHANGED storageVars]_vars

\* C9 witness: loadCriteria has returned the decode error for an assignment that has
\* a rubric and a review to lose
C9_Witness ==
    /\ lc[1].pc = "done"
    /\ lc[1].err = "Unmarshal"
    /\ Len(lc[1].assignment.GradingBenchmarks) > 0
    /\ ReviewsOfAssignment(lc[1].assignment.ID) # {}

\* C10: a step that creates a benchmark creates the benchmark the flow is at, for the
\* flow's assignment; a step that creates a criterion finds exactly one benchmark
\* with the criterion's BenchmarkID already in storage, and that benchmark is the
\* one the criterion is nested under in the parsed rubric, created for the flow's
\* assignment.
C10_BenchmarkBeforeCriteria ==
    [][/\ \A b \in benchmarks' \ benchmarks :
            \E p \in Procs :
                /\ lc[p].pc = "CreateBenchmark"
                /\ b.AssignmentID = lc[p].assignment.ID
                /\ b.Heading = lc[p].criteriaString.doc[lc[p].i].Heading
                /\ \A x \in benchmarks : x.ID # b.ID
       /\ \A c \in criteria' \ criteria :
            \E p \in Procs :
                /\ lc[p].pc = "CreateCriterion"
                /\ c.Description =
                      lc[p].criteriaString.doc[lc[p].i].Criteria[lc[p].j].Description
                /\ Cardinality({b \in benchmarks : b.ID = c.BenchmarkID}) = 1
                /\ \A b \in benchmarks :
                      b.ID = c.BenchmarkID
                        => /\ b.AssignmentID = lc[p].assignment.ID
                           /\ b.Heading = lc[p].criteriaString.doc[lc[p].i].Heading
                           /\ b.ID = lc[p].benchmarks[lc[p].i].ID
                /\ \A x \in criteria : x.ID # c.ID]_vars

\* C10 witness: the import of a rubric whose JSON names another assignment and
\* another benchmark has created its benchmark and its criterion
C10_Witness ==
    /\ lc[1].pc = "done"
    /\ lc[1].result = "ok"
    /\ lc[1].criteriaString.doc = RubricB
    /\ \E b \in benchmarks, c \in criteria :
          /\ b.Heading = "B1" /\ c.Description = "b11" /\ c.BenchmarkID = b.ID
          /\ c.BenchmarkID # 1

(***************************************************************************)
(* ParseAssignments on every directory of at most MaxEntries entries.      *)
(***************************************************************************)
Entries ==
    {Lab1, Lab2, Lab1Renamed, LabWide, LabShortHour, LabYearFirst, LabNoSuchDay,
     LabUnreadable, LabNotYaml, LabDir, Readme, DirNamedTarget}

EntryLists == UNION {[1..n -> Entries] : n \in 0..MaxEntries}

Directories ==
    {[exists |-> TRUE, entries |-> es] : es \in EntryLists}
        \cup {[exists |-> FALSE, entries |-> <<>>]}

InitParse ==
    /\ InitStorage
    /\ InitFacadeIdle
    /\ lc = [p \in Procs |-> IdleFlow]
    /\ interrupted = {}
    /\ sync = NoSync
    /\ syncRuns = 0
    /\ parseIn \in {[dir |-> d, courseID |-> c] : d \in Directories, c \in {1, 2}}
    /\ parseOut = [returned |-> FALSE, err |-> FALSE, cause |-> "none",
                   assignments |-> <<>>, visited |-> 0]

\* the call returns
ParseCall ==
    /\ ~parseOut.returned
    /\ LET returns(r) ==
               parseOut' = [returned |-> TRUE, err |-> r.err, cause |-> r.cause,
                            assignments |-> r.assignments, visited |-> r.visited]
       IN  returns(ParseAssignments(parseIn.dir, parseIn.courseID))
    /\ UNCHANGED <<storageVars, rubricVars, syncVars, parseIn, reviewVars, frontendVars,
                   facadeVars>>

NextParse == ParseCall

SpecParse == InitParse /\ [][NextParse]_vars

(***************************************************************************)
(* Properties of ParseAssignments.                                         *)
(***************************************************************************)
\* the descriptor files of a directory, in the order of the walk
DescriptorsOf(dir) == SelectSeq(dir.entries, LAMBDA e : e.base = target /\ ~e.isDir)

\* the number written in the characters a..b of s
Number(s, a, b) ==
    LET RECURSIVE upTo(_)
        upTo(k) == IF k < a THEN 0 ELSE 10 * upTo(k - 1) + DigitValue(s[k])
    IN  upTo(b)

\* s has the format DD-MM-YYYY HH:MM and names a minute of the calendar
WellFormedDeadline(s) ==
    /\ Len(s) = 16
    /\ \A k \in {1, 2, 4, 5, 7, 8, 9, 10, 12, 13, 15, 16} : IsDigitChar(s[k])
    /\ s[3] = "-" /\ s[6] = "-" /\ s[11] = " " /\ s[14] = ":"
    /\ Number(s, 7, 10) >= 1
    /\ Number(s, 4, 5) \in 1..12
    /\ Number(s, 1, 2) \in 1..DaysIn(Number(s, 4, 5), Number(s, 7, 10))
    /\ Number(s, 12, 13) \in 0..23
    /\ Number(s, 15, 16) \in 0..59

\* the civil date of a day counted from 1970-01-01
CivilFromDays(z) ==
    LET zz  == z + 719468
        era == zz \div 146097
        doe == zz - era * 146097
        yoe == (doe - doe \div 1460 + doe \div 36524 - doe \div 146096) \div 365
        doy == doe - (365 * yoe + yoe \div 4 - yoe \div 100)
        mp  == (5 * doy + 2) \div 153
        m   == IF mp < 10 THEN mp + 3 ELSE mp - 9
    IN  [year |-> yoe + era * 400 + (IF m <= 2 THEN 1 ELSE 0),
         month |-> m,
         day |-> doy - (153 * mp + 2) \div 5 + 1]

\* the timestamp ts is the minute the well-formed deadline s names, in UTC
Denotes(ts, s) ==
    LET date == CivilFromDays(ts.Seconds \div 86400)
        secs == ts.Seconds % 86400
    IN  /\ date.year = Number(s, 7, 10)
        /\ date.month = Number(s, 4, 5)
        /\ date.day = Number(s, 1, 2)
        /\ secs = Number(s, 12, 13) * 3600 + Number(s, 15, 16) * 60
        /\ ts.Nanos = 0

\* t is s with every upper-case letter replaced by its lower-case letter
LowerCaseOf(t, s) ==
    /\ Len(t) = Len(s)
    /\ \A k \in 1..Len(s) :
          /\ \A u \in 1..26 : t[k] # UpperChars[u]
          /\ \A u \in 1..26 : s[k] \in {UpperChars[u], LowerChars[u]} => t[k] = LowerChars[u]

\* every descriptor file of the directory can be read, decodes, and has a
\* well-formed deadline
ValidTree(dir) ==
    /\ dir.exists
    /\ \A k \in 1..Len(DescriptorsOf(dir)) :
          LET e == DescriptorsOf(dir)[k]
          IN  e.readable /\ e.yamlOk /\ WellFormedDeadline(e.data.Deadline)

\* the assignment a is the one the claim C7 describes for the descriptor data d
AsDescribed(a, d, courseID) ==
    /\ a.ID = d.AssignmentID
    /\ U(a.Order) = a.ID
    /\ LowerCaseOf(a.Language, d.Language)
    /\ a.CourseID = courseID
    /\ Denotes(a.Deadline, d.Deadline)
    /\ a.Name = d.Name
    /\ a.AutoApprove = d.AutoApprove
    /\ a.IsGroupLab = d.IsGroupLab

\* the single assignment of the specification's end-to-end example
ExampleAssignment(courseID) ==
    [ID |-> U(1), CourseID |-> courseID, Name |-> "Lab 1", Language |-> <<"g","o">>,
     AutoApprove |-> TRUE, IsGroupLab |-> FALSE, Order |-> 1,
     Deadline |-> [Seconds |-> 1725235140, Nanos |-> 0]]

\* C7: for a valid descriptor tree ParseAssignments returns no error and exactly one
\* assignment per descriptor file, in the order of the walk, each with Order equal
\* to its assignment ID, the language in lower case, the given course ID and the
\* deadline its DD-MM-YYYY HH:MM string names; the example of the specification
\* parses to the assignment the specification gives.
C7_OnePerDescriptor ==
    (parseOut.returned /\ ValidTree(parseIn.dir))
        => /\ ~parseOut.err
           /\ Len(parseOut.assignments) = Len(DescriptorsOf(parseIn.dir))
           /\ \A k \in 1..Len(DescriptorsOf(parseIn.dir)) :
                 AsDescribed(parseOut.assignments[k], DescriptorsOf(parseIn.dir)[k].data,
                             parseIn.courseID)
           /\ (parseIn.dir.entries = <<LabDir, Lab1>>
                 => parseOut.assignments = <<ExampleAssignment(parseIn.courseID)>>)

\* C7, for the trees whose assignment IDs are all below 2^32: this much of the claim
\* holds.
C7_OnePerDescriptorBelow32Bits ==
    (\A k \in 1..Len(DescriptorsOf(parseIn.dir)) :
        DescriptorsOf(parseIn.dir)[k].data.AssignmentID.hi = 0)
        => C7_OnePerDescriptor

\* a descriptor file that cannot be read, does not decode, or has a deadline that
\* time.Parse or the timestamp conversion refuses
BadDescriptor(e) ==
    /\ e.base = target /\ ~e.isDir
    /\ \/ ~e.readable
       \/ ~e.yamlOk
       \/ ~TimeParse(e.data.Deadline).ok
       \/ ~TimestampProto(TimeParse(e.data.Deadline)).ok

\* C8: when one descriptor file of the walked tree is bad, ParseAssignments returns
\* an error and no assignment at all, whatever was visited before it.
C8_NoPartialResult ==
    (parseOut.returned /\ parseIn.dir.exists
        /\ \E k \in 1..Len(parseIn.dir.entries) : BadDescriptor(parseIn.dir.entries[k]))
        => (parseOut.err /\ parseOut.assignments = <<>>)

\* C8 witness: a valid descriptor was visited before one with an unparseable
\* deadline, and the call has returned
C8_Witness ==
    /\ parseOut.returned
    /\ parseIn.dir.entries = <<Lab1, LabYearFirst>>
    /\ parseOut.err

\* C21: when the directory does not exist, ParseAssignments returns the error of
\* os.Stat that says so and no assignment, and the walk function was called for
\* no entry.
C21_NotExistBeforeWalk ==
    (parseOut.returned /\ ~parseIn.dir.exists)
        => /\ parseOut.err
           /\ parseOut.cause = "NotExist"
           /\ parseOut.assignments = <<>>
           /\ parseOut.visited = 0

\* ParseAssignments has returned for a directory that does not exist
C21_Witness ==
    /\ parseOut.returned
    /\ ~parseIn.dir.exists
    /\ parseOut.err

(***************************************************************************)
(* updateAssignments (assignments.go:32-46), on two courses without        *)
(* assignments; what the tests repository holds may change between runs.   *)
(***************************************************************************)
Cloned(entries) == [cloned |-> TRUE, dir |-> [exists |-> TRUE, entries |-> entries]]

\* what a fetch may find: the clone fails, or the repository holds this tree
Remotes ==
    { [cloned |-> FALSE, dir |-> [exists |-> FALSE, entries |-> <<>>]],
      Cloned(<<>>),
      Cloned(<<LabDir, Lab1, Lab2>>),
      Cloned(<<Lab1Renamed>>),
      Cloned(<<Lab1, Lab1Renamed>>),
      Cloned(<<Lab1, LabYearFirst>>) }

\* an update that inserts every fetched assignment as a new row
UpdateAssignmentsOutcome_insertAll(courseID, remote, dbOk) ==
    LET updated(fetched) ==
            IF fetched.err \/ ~dbOk THEN [result |-> "err", rows |-> assignments]
            ELSE [result |-> "ok",
                  rows |-> assignments \o
                      [k \in 1..Len(fetched.assignments) |->
                          NewAssignmentRow(fetched.assignments[k])]]
        found(course) ==
            IF ~course.found THEN [result |-> "err", rows |-> assignments]
            ELSE updated(FetchAssignments(course.row, remote))
    IN  found(DbGetCourse(courseID))

\* an update that looks for the row of an assignment by its name
UpdateAssignmentsOutcome_matchByName(courseID, remote, dbOk) ==
    LET RECURSIVE byName(_, _)
        byName(rows, list) ==
            IF list = <<>> THEN rows
            ELSE LET hits == {k \in 1..Len(rows) :
                                /\ rows[k].Name = Head(list).Name
                                /\ rows[k].CourseID = Head(list).CourseID}
                 IN  byName(IF hits = {} THEN Append(rows, NewAssignmentRow(Head(list)))
                            ELSE [rows EXCEPT ![CHOOSE k \in hits : TRUE] =
                                        NewAssignmentRow(Head(list))],
                            Tail(list))
        updated(fetched) ==
            IF fetched.err \/ ~dbOk THEN [result |-> "err", rows |-> assignments]
            ELSE [result |-> "ok", rows |-> byName(assignments, fetched.assignments)]
        found(course) ==
            IF ~course.found THEN [result |-> "err", rows |-> assignments]
            ELSE updated(FetchAssignments(course.row, remote))
    IN  found(DbGetCourse(courseID))

\* an update that first drops the rows of the course
UpdateAssignmentsOutcome_dropFirst(courseID, remote, dbOk) ==
    LET updated(fetched) ==
            IF fetched.err \/ ~dbOk THEN [result |-> "err", rows |-> assignments]
            ELSE [result |-> "ok",
                  rows |-> DbUpdateAssignments(
                              SelectSeq(assignments, LAMBDA r : r.CourseID # courseID),
                              fetched.assignments)]
        found(course) ==
            IF ~course.found THEN [result |-> "err", rows |-> assignments]
            ELSE updated(FetchAssignments(course.row, remote))
    IN  found(DbGetCourse(courseID))

\* assignments.go:33-46: the error or nil, and the assignment rows afterwards
UpdateAssignmentsOutcome(courseID, remote, dbOk) ==
    LET updated(fetched) ==
            IF fetched.err THEN [result |-> "err", rows |-> assignments]
            ELSE IF ~dbOk THEN [result |-> "err", rows |-> assignments]
            ELSE [result |-> "ok",
                  rows |-> DbUpdateAssignments(assignments, fetched.assignments)]
        found(course) ==
            IF ~course.found THEN [result |-> "err", rows |-> assignments]
            ELSE updated(FetchAssignments(course.row, remote))
    IN  found(DbGetCourse(courseID))

\* one request; sync keeps it, with whether it repeats the request before it (the
\* same course, the same remote tree, both successful)
updateAssignments ==
    /\ syncRuns < MaxSyncRuns
    /\ \E courseID \in {1, 2, 3}, remote \in Remotes, dbOk \in BOOLEAN :
          LET returns(outcome) ==
                  /\ assignments' = outcome.rows
                  /\ sync' = [courseID |-> courseID, remote |-> remote,
                              result |-> outcome.result,
                              repeated |-> /\ outcome.result = "ok"
                                           /\ sync.result = "ok"
                                           /\ sync.courseID = courseID
                                           /\ sync.remote = remote]
          IN  returns(UpdateAssignmentsOutcome(courseID, remote, dbOk))
    /\ syncRuns' = syncRuns + 1
    /\ UNCHANGED <<courses, submissions, benchmarks, criteria, reviews,
                   nextBenchmarkID, nextCriterionID, nextReviewID, rubricVars, parseVars,
                   reviewVars, frontendVars, facadeVars>>

InitSync ==
    /\ courses = {[ID |-> 1, OrganizationPath |-> "org1"],
                  [ID |-> 2, OrganizationPath |-> "org2"]}
    /\ assignments = <<>>
    /\ submissions = {}
    /\ benchmarks = {}
    /\ criteria = {}
    /\ reviews = {}
    /\ nextBenchmarkID = 1
    /\ nextCriterionID = 1
    /\ nextReviewID = 1
    /\ InitIdle

NextSync == updateAssignments

SpecSync == InitSync /\ [][NextSync]_vars

\* the rows k and m are of the same assignment
SameAssignment(r, q) == r.ID = q.ID /\ r.CourseID = q.CourseID

\* C4: a successful updateAssignments that repeats the successful request before it
\* (same course, same remote descriptors) leaves the persisted assignments as they
\* were: no row added, none changed.
C4_SecondRunChangesNothing ==
    [][(syncRuns' = syncRuns + 1 /\ sync'.repeated) => assignments' = assignments]_vars

\* C4 witness: a tree with two descriptors has been synchronised twice in a row
C4_Witness ==
    /\ sync.repeated
    /\ Len(sync.remote.dir.entries) >= 2
    /\ Len(assignments) >= 2

\* C5: storage never holds two assignment rows with the same (CourseID, ID).
C5_UniqueAssignment ==
    \A k, m \in 1..Len(assignments) :
        SameAssignment(assignments[k], assignments[m]) => k = m

\* C5 witness: assignment 1 of course 1 was synchronised from two descriptors in
\* turn and is the renamed one, beside assignment 1 of course 2
C5_Witness ==
    /\ syncRuns = 3
    /\ \E k, m \in 1..Len(assignments) :
          /\ assignments[k].CourseID = 1 /\ assignments[k].ID = U(1)
          /\ assignments[k].Name = "Lab 1b"
          /\ assignments[m].CourseID = 2 /\ assignments[m].ID = U(1)

\* C6: every assignment persisted before a step is persisted after it.
C6_NeverDeletes ==
    [][\A k \in 1..Len(assignments) :
          \E m \in 1..Len(assignments') :
              SameAssignment(assignments[k], assignments'[m])]_vars

\* C6 witness: course 1 has just been synchronised from a tree without assignment 2,
\* and assignment 2 of course 1 is persisted
C6_Witness ==
    /\ sync.result = "ok"
    /\ sync.courseID = 1
    /\ sync.remote = Cloned(<<Lab1Renamed>>)
    /\ \E k \in 1..Len(assignments) :
          assignments[k].CourseID = 1 /\ assignments[k].ID = U(2)

(***************************************************************************)
(* The provider (GitLab) and GitlabSCM (unnamed/part_002:23-145).  The     *)
(* provider keeps directories (groups) and repositories (projects) and     *)
(* gives each a new ID; a call to it may also fail for a reason of its     *)
(* own.  A pointer is a record with the flag set, nil is one without.      *)
(***************************************************************************)
\* directories and repositories the provider may hold in one behaviour
MaxRemoteID == 4

DirectoryPtr(id, path) == [set |-> TRUE, ID |-> id, Path |-> path]

\* the provider's answer to Groups.CreateGroup: a path is taken once
GroupsCreateGroup(path, up) ==
    IF ~up THEN [err |-> "Unavailable", ID |-> 0, Path |-> ""]
    ELSE IF \E d \in provider.directories : d.Path = path
    THEN [err |-> "Conflict", ID |-> 0, Path |-> ""]
    ELSE [err |-> "none", ID |-> provider.nextID, Path |-> path]

\* the provider's answer to Projects.CreateProject: the namespace must be one of its
\* directories (for one that is not, providers answer 404 or 400), and a path is
\* taken once in a namespace
ProjectsCreateProject(path, namespaceID, up, unknownNamespace) ==
    IF ~up THEN [err |-> "Unavailable", ID |-> 0, Path |-> ""]
    ELSE IF ~(\E d \in provider.directories : d.ID = namespaceID)
    THEN [err |-> unknownNamespace, ID |-> 0, Path |-> ""]
    ELSE IF \E r \in provider.repositories : r.DirectoryID = namespaceID /\ r.Path = path
    THEN [err |-> "Conflict", ID |-> 0, Path |-> ""]
    ELSE [err |-> "none", ID |-> provider.nextID, Path |-> path]

\* the provider after a call it answered without error
ProviderWithGroup(group) ==
    IF group.err # "none" THEN provider
    ELSE [provider EXCEPT !.directories = @ \cup {[ID |-> group.ID, Path |-> group.Path]},
                          !.nextID = @ + 1]

ProviderWithProject(repo, namespaceID) ==
    IF repo.err # "none" THEN provider
    ELSE [provider EXCEPT !.repositories =
                              @ \cup {[ID |-> repo.ID, Path |-> repo.Path,
                                       DirectoryID |-> namespaceID]},
                          !.nextID = @ + 1]

\* GitlabSCM.CreateDirectory (part_002:63-78), given the provider's answer
CreateDirectory(opt, group) ==
    IF group.err # "none" THEN [err |-> group.err, directory |-> NilDirectory]
    ELSE [err |-> "none", directory |-> DirectoryPtr(group.ID, group.Path)]

\* GitlabSCM.CreateRepository (part_002:95-116), given the provider's answer; line 96
\* reads opt.Directory.ID, and with a nil Directory the call panics there
CreateRepository(opt, repo) ==
    IF ~opt.Directory.set
    THEN [panic |-> TRUE, err |-> "none", made |-> FALSE, Repository |-> <<>>]
    ELSE IF repo.err # "none"
    THEN [panic |-> FALSE, err |-> repo.err, made |-> FALSE, Repository |-> <<>>]
    ELSE [panic |-> FALSE, err |-> "none", made |-> TRUE,
          Repository |-> [ID |-> repo.ID, Path |-> repo.Path,
                          DirectoryID |-> opt.Directory.ID]]

\* gitlab.WithContext(ctx) on a request: when the context ends before the provider has
\* answered, the request is given up and returns the error of the context
WithContext(done, answer) ==
    IF done THEN [answer EXCEPT !.err = "Canceled"] ELSE answer

\* the provider's answer to Groups.ListGroups
GroupsListGroups(up) ==
    IF ~up THEN [err |-> "Unavailable", groups |-> {}]
    ELSE [err |-> "none", groups |-> provider.directories]

\* the provider's answer to Groups.GetGroup
GroupsGetGroup(id, up) ==
    IF ~up THEN [err |-> "Unavailable", ID |-> 0, Path |-> ""]
    ELSE IF ~(\E d \in provider.directories : d.ID = id)
    THEN [err |-> "NotFound", ID |-> 0, Path |-> ""]
    ELSE LET d == CHOOSE d \in provider.directories : d.ID = id
         IN  [err |-> "none", ID |-> d.ID, Path |-> d.Path]

\* the provider's answer to Groups.ListGroupProjects
GroupsListGroupProjects(id, up) ==
    IF ~up THEN [err |-> "Unavailable", projects |-> {}]
    ELSE IF ~(\E d \in provider.directories : d.ID = id)
    THEN [err |-> "NotFound", projects |-> {}]
    ELSE [err |-> "none", projects |-> {r \in provider.repositories : r.DirectoryID = id}]

\* GitlabSCM.GetDirectory (part_002:81-92), given the provider's answer
GetDirectory(id, group) ==
    IF group.err # "none" THEN [err |-> group.err, directory |-> NilDirectory]
    ELSE [err |-> "none", directory |-> DirectoryPtr(group.ID, group.Path)]

\* GitlabSCM.GetRepositories (part_002:119-138), given the provider's answer; line
\* 120 reads directory.ID, and with a nil directory the call panics there
GetRepositories(directory, repos) ==
    IF ~directory.set THEN [panic |-> TRUE, err |-> "none", repositories |-> {}]
    ELSE IF repos.err # "none"
    THEN [panic |-> FALSE, err |-> repos.err, repositories |-> {}]
    ELSE [panic |-> FALSE, err |-> "none",
          repositories |-> {[ID |-> r.ID, Path |-> r.Path, DirectoryID |-> directory.ID] :
                               r \in repos.projects}]

(***************************************************************************)
(* Callers.  The service resolves the caller from the request context;     *)
(* the helpers that do so (getCurrentUser, getUserAndSCM, getUserAndSCM2,  *)
(* hasAccess, isAdmin, isTeacher) are not part of the sources at hand.     *)
(***************************************************************************)
Identity(name, id) == [Provider |-> name, RemoteID |-> id]

\* an admin, two students, and a user who has no account at the provider
SomeUsers ==
    { [ID |-> 1, Name |-> "u1", IsAdmin |-> TRUE,
       RemoteIdentities |-> {Identity("gitlab", 11)}],
      [ID |-> 2, Name |-> "u2", IsAdmin |-> FALSE,
       RemoteIdentities |-> {Identity("gitlab", 12)}],
      [ID |-> 3, Name |-> "u3", IsAdmin |-> FALSE,
       RemoteIdentities |-> {Identity("gitlab", 13)}],
      [ID |-> 4, Name |-> "u4", IsAdmin |-> FALSE, RemoteIdentities |-> {}] }

\* the callers: the users, and one the context does not resolve to a user
Callers == {1, 2, 3, 4, 9}

NoUser == [ID |-> 0, Name |-> "", IsAdmin |-> FALSE, RemoteIdentities |-> {}]

\* getCurrentUser
GetCurrentUser(caller) ==
    IF \E u \in users : u.ID = caller
    THEN [ok |-> TRUE, usr |-> CHOOSE u \in users : u.ID = caller]
    ELSE [ok |-> FALSE, usr |-> NoUser]

\* isAdmin
IsAdmin(caller) == GetCurrentUser(caller).ok /\ GetCurrentUser(caller).usr.IsAdmin

\* hasAccess: the caller is the user asked about, or an admin
HasAccess(caller, userID) ==
    GetCurrentUser(caller).ok /\ (GetCurrentUser(caller).usr.IsAdmin \/ caller = userID)

\* isTeacher: the user is enrolled in the course as its teacher
IsTeacher(userID, courseID) ==
    \E e \in enrollments :
        e.UserID = userID /\ e.CourseID = courseID /\ e.Status = "TEACHER"

\* getUserAndSCM: the caller, with a client for the provider made from the caller's
\* identity there; with the flag, only for an admin
GetUserAndSCM(caller, name, onlyAdmin) ==
    LET resolved(got) ==
            IF ~got.ok THEN [ok |-> FALSE, code |-> "NotFound", usr |-> NoUser]
            ELSE IF ~(\E i \in got.usr.RemoteIdentities : i.Provider = name)
            THEN [ok |-> FALSE, code |-> "NotFound", usr |-> NoUser]
            ELSE IF onlyAdmin /\ ~got.usr.IsAdmin
            THEN [ok |-> FALSE, code |-> "PermissionDenied", usr |-> NoUser]
            ELSE [ok |-> TRUE, code |-> "OK", usr |-> got.usr]
    IN  resolved(GetCurrentUser(caller))

(***************************************************************************)
(* CreateCourse (autograder_service.go:107-126).  NewCourse is not part of *)
(* the sources at hand; its steps are those the specification gives:       *)
(* create the directory, create the repositories in it, persist the course.*)
(***************************************************************************)
\* directories created in one behaviour
MaxDirectories == 2

\* the repositories of a course
courseRepositories == <<"info", "tests">>

\* requests that name no course creator, the admin, or another user
CourseRequests ==
    { [Provider |-> "gitlab", Name |-> n, CourseCreatorID |-> u] :
        n \in {"dat100", "dat200"}, u \in {0, 1, 2} }

\* a request that keeps the course creator it came with
CourseCreator_asRequested(in, usr) == in

\* autograder_service.go:115-116: the current user is set as course creator
CourseCreator(in, usr) == [in EXCEPT !.CourseCreatorID = usr.ID]

\* autograder_service.go:118-124: the status CreateCourse makes of NewCourse's error
CreateCourseFailed(f, err) ==
    [f EXCEPT !.pc = "done", !.result = "err",
              !.code = IF err = "ErrAlreadyExists" THEN "AlreadyExists"
                       ELSE "InvalidArgument"]

\* autograder_service.go:110-117: the caller is resolved, made the course creator,
\* and NewCourse starts
CreateCourse ==
    /\ cc.pc = "idle"
    /\ Cardinality(provider.directories) < MaxDirectories
    /\ \E caller \in Callers, in \in CourseRequests :
          LET resolved(got) ==
                  IF ~got.ok
                  THEN [IdleCreateCourse EXCEPT !.pc = "done", !.in = in,
                                                !.asked = in.CourseCreatorID,
                                                !.result = "err", !.code = got.code]
                  ELSE [IdleCreateCourse EXCEPT
                            !.pc = "CreateDirectory",
                            !.in = CourseCreator(in, got.usr),
                            !.asked = in.CourseCreatorID,
                            !.usr = got.usr.ID,
                            !.paths = courseRepositories]
          IN  cc' = resolved(GetUserAndSCM(caller, in.Provider, TRUE))
    /\ UNCHANGED <<storageVars, rubricVars, syncVars, parseVars, reviewVars, frontendVars,
                   users, groups, enrollments, provider, rpc, org, scmCall>>

\* NewCourse, step 1: the directory of the course
NewCourseCreateDirectory ==
    /\ cc.pc = "CreateDirectory"
    /\ \E up \in BOOLEAN :
          LET created(group, made) ==
                  /\ provider' = ProviderWithGroup(group)
                  /\ cc' = IF made.err = "Conflict"
                            THEN CreateCourseFailed(cc, "ErrAlreadyExists")
                            ELSE IF made.err # "none"
                            THEN CreateCourseFailed(cc, made.err)
                            ELSE [cc EXCEPT !.pc = "CreateRepository",
                                            !.directory = made.directory.ID]
              answered(group) ==
                  created(group, CreateDirectory([Name |-> cc.in.Name, Path |-> cc.in.Name],
                                                 group))
          IN  answered(GroupsCreateGroup(cc.in.Name, up))
    /\ UNCHANGED <<storageVars, rubricVars, syncVars, parseVars, reviewVars, frontendVars,
                   users, groups, enrollments, rpc, org, scmCall>>

\* NewCourse, step 2: the next repository of the course, in its directory
NewCourseCreateRepository ==
    /\ cc.pc = "CreateRepository"
    /\ \E up \in BOOLEAN :
          LET created(repo, made) ==
                  /\ provider' = ProviderWithProject(repo, cc.directory)
                  /\ cc' = IF made.err # "none" THEN CreateCourseFailed(cc, made.err)
                            ELSE IF Len(cc.paths) = 1 THEN [cc EXCEPT !.pc = "CreateCourse",
                                                                      !.paths = <<>>]
                            ELSE [cc EXCEPT !.paths = Tail(@)]
              answered(repo) ==
                  created(repo,
                          CreateRepository([Path |-> Head(cc.paths),
                                            Directory |-> DirectoryPtr(cc.directory, cc.in.Name)],
                                           repo))
          IN  answered(ProjectsCreateProject(Head(cc.paths), cc.directory, up, "NotFound"))
    /\ UNCHANGED <<storageVars, rubricVars, syncVars, parseVars, reviewVars, frontendVars,
                   users, groups, enrollments, rpc, org, scmCall>>

\* NewCourse, step 3: the course row, which holds the ID of its directory
NewCourseCreateCourse ==
    /\ cc.pc = "CreateCourse"
    /\ \/ /\ courses' = courses \cup
                    {[ID |-> Cardinality(courses) + 1, OrganizationPath |-> cc.in.Name,
                      DirectoryID |-> cc.directory, CourseCreatorID |-> cc.in.CourseCreatorID]}
          /\ cc' = [cc EXCEPT !.pc = "done", !.result = "ok", !.code = "OK"]
       \/ /\ courses' = courses
          /\ cc' = CreateCourseFailed(cc, "CreateCourse")
    /\ UNCHANGED <<assignments, submissions, benchmarks, criteria, reviews,
                   nextBenchmarkID, nextCriterionID, nextReviewID,
                   rubricVars, syncVars, parseVars, reviewVars, frontendVars,
                   users, groups, enrollments, provider, rpc, org, scmCall>>

\* autograder_service.go:112, 121-125: the caller has the course or the error
CreateCourseReturn ==
    /\ cc.pc = "done"
    /\ cc' = IdleCreateCourse
    /\ UNCHANGED <<storageVars, rubricVars, syncVars, parseVars, reviewVars, frontendVars,
                   users, groups, enrollments, provider, rpc, org, scmCall>>

InitCourse ==
    /\ courses = {}
    /\ assignments = <<>>
    /\ submissions = {}
    /\ benchmarks = {}
    /\ criteria = {}
    /\ reviews = {}
    /\ nextBenchmarkID = 1
    /\ nextCriterionID = 1
    /\ nextReviewID = 1
    /\ lc = [p \in Procs |-> IdleFlow]
    /\ interrupted = {}
    /\ sync = NoSync
    /\ syncRuns = 0
    /\ parseIn = [dir |-> [exists |-> FALSE, entries |-> <<>>], courseID |-> 0]
    /\ parseOut = [returned |-> FALSE, err |-> FALSE, cause |-> "none",
                   assignments |-> <<>>, visited |-> 0]
    /\ users = SomeUsers
    /\ groups = {}
    /\ enrollments = {}
    /\ provider = NoRemote
    /\ cc = IdleCreateCourse
    /\ rpc = NoRpc
    /\ org = IdleOrganizations
    /\ scmCall = NoCall
    /\ rv = [p \in Procs |-> IdleReview]
    /\ grpc = NoClient

NextCourse ==
    \/ CreateCourse
    \/ NewCourseCreateDirectory
    \/ NewCourseCreateRepository
    \/ NewCourseCreateCourse
    \/ CreateCourseReturn

SpecCourse == InitCourse /\ [][NextCourse]_vars

\* C11: when CreateCourse has returned an error after the directory of the course was
\* created, the provider does not hold that directory without a course that
\* references it.
C11_NoOrphanDirectory ==
    (cc.pc = "done" /\ cc.result = "err" /\ cc.directory # 0)
        => \/ ~(\E d \in provider.directories : d.ID = cc.directory)
           \/ \E c \in courses : c.DirectoryID = cc.directory

\* C23: a course that CreateCourse persists has the ID of the authenticated caller as
\* CourseCreatorID, whatever CourseCreatorID the request came with.
C23_CreatorIsCaller ==
    [][cc.pc = "CreateCourse"
          => \A c \in courses' \ courses :
                 /\ c.CourseCreatorID = cc.usr
                 /\ \E u \in users : u.ID = cc.usr]_vars

\* a course is persisted whose creator is the caller, for a request that named
\* another user as course creator
C23_Witness ==
    /\ cc.pc = "done"
    /\ cc.result = "ok"
    /\ cc.asked # cc.usr
    /\ cc.asked # 0
    /\ \E c \in courses : c.OrganizationPath = cc.in.Name /\ c.CourseCreatorID = cc.usr

(***************************************************************************)
(* The service (autograder_service.go).  An operation answers a request of *)
(* a caller: it may resolve the caller, check what the caller may do, call *)
(* a component, and it returns a value or an error.  The components it     *)
(* calls (getUser, createGroup, ListCourses, ...) and the removal of       *)
(* remote identities (package pb) are not part of the sources at hand.     *)
(* A component takes a fault: the error its storage access ends with, if   *)
(* any.                                                                    *)
(***************************************************************************)
\* an error is nil, a status error with a code, or any other Go error
NoError == [kind |-> "none", code |-> "OK", text |-> ""]

StatusError(code, text) == [kind |-> "status", code |-> code, text |-> text]

PlainError(text) == [kind |-> "plain", code |-> "", text |-> text]

\* status.FromError: whether the error carries a status
FromError(err) == err.kind # "plain"

\* the errors a storage access may end with
Faults == {NoError, PlainError("database is locked")}

\* what the caller receives: of an error without a status, the code Unknown and the
\* text of the error
Response(op, caller, in, steps, err, cause, body) ==
    [op |-> op, caller |-> caller, in |-> in, steps |-> steps,
     result |-> IF err.kind = "none" THEN "ok" ELSE "err",
     code |-> IF err.kind = "plain" THEN "Unknown" ELSE err.code,
     text |-> err.text,
     cause |-> cause,
     body |-> IF err.kind = "none" THEN body ELSE {},
     Assignments |-> <<>>]

\* pb.User.RemoveRemoteID
RemoveRemoteID(u) == [u EXCEPT !.RemoteIdentities = {}]

\* pb.Users.RemoveRemoteIDs
RemoveRemoteIDs(usrs) == {RemoveRemoteID(u) : u \in usrs}

\* pb.Group.RemoveRemoteIDs
GroupRemoveRemoteIDs(g) == [g EXCEPT !.Users = RemoveRemoteIDs(@)]

\* pb.Enrollments.RemoveRemoteIDs
EnrollmentsRemoveRemoteIDs(es) == {[e EXCEPT !.User = RemoveRemoteID(@)] : e \in es}

\* a group row loaded with its users
LoadGroup(g) ==
    [ID |-> g.ID, CourseID |-> g.CourseID, Status |-> g.Status,
     Users |-> {u \in users : u.ID \in g.UserIDs}]

NoGroup == [ID |-> 0, CourseID |-> 0, Status |-> "", Users |-> {}]

\* an enrollment row loaded with its user
LoadEnrollment(e) ==
    [UserID |-> e.UserID, CourseID |-> e.CourseID, Status |-> e.Status,
     User |-> IF \E u \in users : u.ID = e.UserID
              THEN CHOOSE u \in users : u.ID = e.UserID ELSE NoUser]

\* getUser
getUser(in, fault) ==
    IF fault.kind # "none" THEN [err |-> fault, usr |-> NoUser]
    ELSE IF \E u \in users : u.ID = in.ID
    THEN [err |-> NoError, usr |-> CHOOSE u \in users : u.ID = in.ID]
    ELSE [err |-> PlainError("record not found"), usr |-> NoUser]

\* getUsers
getUsers(fault) ==
    IF fault.kind # "none" THEN [err |-> fault, usrs |-> {}]
    ELSE [err |-> NoError, usrs |-> users]

\* updateUser: the name is updated, and the admin flag when an admin asks
updateUser(isAdmin, in, fault) ==
    IF fault.kind # "none" THEN [err |-> fault, usr |-> NoUser, users |-> users]
    ELSE IF ~(\E u \in users : u.ID = in.ID)
    THEN [err |-> PlainError("record not found"), usr |-> NoUser, users |-> users]
    ELSE LET old == CHOOSE u \in users : u.ID = in.ID
             new == [old EXCEPT !.Name = in.Name,
                                !.IsAdmin = IF isAdmin THEN in.IsAdmin ELSE @]
         IN  [err |-> NoError, usr |-> new, users |-> (users \ {old}) \cup {new}]

\* ListCourses
ListCourses(fault) ==
    IF fault.kind # "none" THEN [err |-> fault, courses |-> {}]
    ELSE [err |-> NoError, courses |-> courses]

\* CreateEnrollment (the function of package web): a pending enrollment of the user
\* in the course
webCreateEnrollment(in, fault) ==
    IF fault.kind # "none" THEN [err |-> fault, enrollments |-> enrollments]
    ELSE IF ~(\E u \in users : u.ID = in.UserID) \/ ~(\E c \in courses : c.ID = in.CourseID)
    THEN [err |-> PlainError("record not found"), enrollments |-> enrollments]
    ELSE IF \E e \in enrollments : e.UserID = in.UserID /\ e.CourseID = in.CourseID
    THEN [err |-> PlainError("duplicate enrollment"), enrollments |-> enrollments]
    ELSE [err |-> NoError,
          enrollments |-> enrollments \cup
              {[UserID |-> in.UserID, CourseID |-> in.CourseID, Status |-> "PENDING"]}]

\* GetEnrollmentsByCourse (the function of package web)
webGetEnrollmentsByCourse(in, fault) ==
    IF fault.kind # "none" THEN [err |-> fault, enrolls |-> {}]
    ELSE [err |-> NoError,
          enrolls |-> {LoadEnrollment(e) : e \in {x \in enrollments : x.CourseID = in.CourseID}}]

\* getGroup
getGroup(in, fault) ==
    IF fault.kind # "none" THEN [err |-> fault, group |-> NoGroup]
    ELSE IF \E g \in groups : g.ID = in.ID
    THEN [err |-> NoError, group |-> LoadGroup(CHOOSE g \in groups : g.ID = in.ID)]
    ELSE [err |-> PlainError("record not found"), group |-> NoGroup]

\* getGroups: the groups of a course
getGroups(in, fault) ==
    IF fault.kind # "none" THEN [err |-> fault, groups |-> {}]
    ELSE [err |-> NoError, groups |-> {LoadGroup(g) : g \in {x \in groups : x.CourseID = in.ID}}]

\* getGroupByUserAndCourse
getGroupByUserAndCourse(in, fault) ==
    LET hits == {g \in groups : g.CourseID = in.CourseID /\ in.UserID \in g.UserIDs}
    IN  IF fault.kind # "none" THEN [err |-> fault, group |-> NoGroup]
        ELSE IF hits = {} THEN [err |-> PlainError("record not found"), group |-> NoGroup]
        ELSE [err |-> NoError, group |-> LoadGroup(CHOOSE g \in hits : TRUE)]

\* createGroup: a pending group of students of the course who are in no group of it
createGroup(in, usr, fault) ==
    IF fault.kind # "none" THEN [err |-> fault, group |-> NoGroup, groups |-> groups]
    ELSE IF ~(\E c \in courses : c.ID = in.CourseID)
    THEN [err |-> StatusError("NotFound", "course not found"),
          group |-> NoGroup, groups |-> groups]
    ELSE IF \/ \E id \in in.UserIDs :
                  ~(\E e \in enrollments : e.UserID = id /\ e.CourseID = in.CourseID)
            \/ \E g \in groups : g.CourseID = in.CourseID /\ g.UserIDs \cap in.UserIDs # {}
    THEN [err |-> StatusError("InvalidArgument", "invalid payload"),
          group |-> NoGroup, groups |-> groups]
    ELSE LET new == [ID |-> 1 + Cardinality(groups), CourseID |-> in.CourseID,
                     Status |-> "PENDING", UserIDs |-> in.UserIDs]
         IN  [err |-> NoError, group |-> LoadGroup(new), groups |-> groups \cup {new}]

\* updateGroup: the status and the members of the group
updateGroup(in, usr, fault) ==
    IF fault.kind # "none" THEN [err |-> fault, groups |-> groups]
    ELSE IF ~(\E g \in groups : g.ID = in.ID /\ g.CourseID = in.CourseID)
    THEN [err |-> StatusError("NotFound", "group not found"), groups |-> groups]
    ELSE LET old == CHOOSE g \in groups : g.ID = in.ID
         IN  [err |-> NoError,
              groups |-> (groups \ {old}) \cup
                  {[old EXCEPT !.Status = in.Status, !.UserIDs = in.UserIDs]}]

\* deleteGroup
deleteGroup(in, fault) ==
    IF fault.kind # "none" THEN [err |-> fault, groups |-> groups]
    ELSE [err |-> NoError, groups |-> {g \in groups : g.ID # in.ID}]

\* UpdateSubmission (the function of package web): the submission is approved
webUpdateSubmission(in, fault) ==
    IF fault.kind # "none" THEN [err |-> fault, submissions |-> submissions]
    ELSE IF ~(\E x \in submissions : x.ID = in.ID)
    THEN [err |-> PlainError("record not found"), submissions |-> submissions]
    ELSE [err |-> NoError,
          submissions |-> {IF x.ID = in.ID THEN [x EXCEPT !.Approved = TRUE] ELSE x :
                              x \in submissions}]

\* hasAccessG: the caller is an admin or one of the users
hasAccessG(caller, usrs) ==
    GetCurrentUser(caller).ok
        /\ (GetCurrentUser(caller).usr.IsAdmin \/ \E u \in usrs : u.ID = caller)

\* getUserAndSCM2: as getUserAndSCM, for the provider of the course
GetUserAndSCM2(caller, courseID, onlyAdmin) ==
    IF ~(\E c \in courses : c.ID = courseID)
    THEN [ok |-> FALSE, code |-> "NotFound", usr |-> NoUser]
    ELSE GetUserAndSCM(caller, (CHOOSE c \in courses : c.ID = courseID).Provider, onlyAdmin)

Denied(op, caller, in, steps, text) ==
    Response(op, caller, in, steps, StatusError("PermissionDenied", text), NoError, {})

\* autograder_service.go:50-61
GetUserResponse(caller, in, fault) ==
    IF ~HasAccess(caller, in.ID)
    THEN Denied("GetUser", caller, in, <<"hasAccess">>, "only admin can access another user")
    ELSE LET got(r) ==
                 IF r.err.kind # "none"
                 THEN Response("GetUser", caller, in, <<"hasAccess", "getUser">>,
                               StatusError("NotFound", "failed to get user"), r.err, {})
                 ELSE Response("GetUser", caller, in, <<"hasAccess", "getUser">>,
                               NoError, NoError, {RemoveRemoteID(r.usr)})
         IN  got(getUser(in, fault))

\* autograder_service.go:65-76
GetUsersResponse(caller, in, fault) ==
    IF ~IsAdmin(caller)
    THEN Denied("GetUsers", caller, in, <<"isAdmin">>, "only admin can access other users")
    ELSE LET got(r) ==
                 IF r.err.kind # "none"
                 THEN Response("GetUsers", caller, in, <<"isAdmin", "getUsers">>,
                               StatusError("NotFound", "failed to get users"), r.err, {})
                 ELSE Response("GetUsers", caller, in, <<"isAdmin", "getUsers">>,
                               NoError, NoError, RemoveRemoteIDs(r.usrs))
         IN  got(getUsers(fault))

\* an UpdateUser without the check of the caller
UpdateUserOutcome_noGate(caller, in, fault) ==
    LET got(r) ==
            IF r.err.kind # "none"
            THEN [rpc |-> Response("UpdateUser", caller, in,
                                   <<"hasAccess", "isAdmin", "updateUser">>,
                                   StatusError("NotFound", "failed to update current user"),
                                   r.err, {}),
                  users |-> r.users]
            ELSE [rpc |-> Response("UpdateUser", caller, in,
                                   <<"hasAccess", "isAdmin", "updateUser">>,
                                   NoError, NoError, {RemoveRemoteID(r.usr)}),
                  users |-> r.users]
    IN  got(updateUser(IsAdmin(caller), in, fault))

\* autograder_service.go:81-92
UpdateUserOutcome(caller, in, fault) ==
    IF ~HasAccess(caller, in.ID)
    THEN [rpc |-> Denied("UpdateUser", caller, in, <<"hasAccess">>,
                         "only admin can access another user"),
          users |-> users]
    ELSE LET got(r) ==
                 IF r.err.kind # "none"
                 THEN [rpc |-> Response("UpdateUser", caller, in,
                                        <<"hasAccess", "isAdmin", "updateUser">>,
                                        StatusError("NotFound", "failed to update current user"),
                                        r.err, {}),
                       users |-> r.users]
                 ELSE [rpc |-> Response("UpdateUser", caller, in,
                                        <<"hasAccess", "isAdmin", "updateUser">>,
                                        NoError, NoError, {RemoveRemoteID(r.usr)}),
                       users |-> r.users]
         IN  got(updateUser(IsAdmin(caller), in, fault))

\* autograder_service.go:154-156
GetCoursesResponse(caller, in, fault) ==
    LET got(r) == Response("GetCourses", caller, in, <<"ListCourses">>, r.err, r.err, r.courses)
    IN  got(ListCourses(fault))

\* autograder_service.go:159-161
CreateEnrollmentOutcome(caller, in, fault) ==
    LET got(r) ==
            [rpc |-> Response("CreateEnrollment", caller, in, <<"CreateEnrollment">>,
                              r.err, r.err, {}),
             enrollments |-> r.enrollments]
    IN  got(webCreateEnrollment(in, fault))

\* autograder_service.go:185-192
GetEnrollmentsByCourseResponse(caller, in, fault) ==
    LET got(r) ==
            IF r.err.kind # "none"
            THEN Response("GetEnrollmentsByCourse", caller, in, <<"GetEnrollmentsByCourse">>,
                          r.err, r.err, {})
            ELSE Response("GetEnrollmentsByCourse", caller, in, <<"GetEnrollmentsByCourse">>,
                          NoError, NoError, EnrollmentsRemoveRemoteIDs(r.enrolls))
    IN  got(webGetEnrollmentsByCourse(in, fault))

\* a GetGroup that returns the group as loaded
GetGroupResponse_asLoaded(caller, in, fault) ==
    LET got(r) ==
            IF r.err.kind # "none"
            THEN Response("GetGroup", caller, in, <<"getGroup">>,
                          StatusError("NotFound", "failed to get group"), r.err, {})
            ELSE IF ~GetCurrentUser(caller).ok
            THEN Response("GetGroup", caller, in, <<"getGroup", "getCurrentUser">>,
                          StatusError("NotFound", "failed to get current user"),
                          PlainError("record not found"), {})
            ELSE IF ~(IsTeacher(caller, r.group.CourseID) \/ hasAccessG(caller, r.group.Users))
            THEN Denied("GetGroup", caller, in,
                        <<"getGroup", "getCurrentUser", "isTeacher", "hasAccessG">>,
                        "only members, teachers or admin can access a group")
            ELSE Response("GetGroup", caller, in,
                          <<"getGroup", "getCurrentUser", "isTeacher", "hasAccessG">>,
                          NoError, NoError, {r.group})
    IN  got(getGroup(in, fault))

\* autograder_service.go:195-211
GetGroupResponse(caller, in, fault) ==
    LET got(r) ==
            IF r.err.kind # "none"
            THEN Response("GetGroup", caller, in, <<"getGroup">>,
                          StatusError("NotFound", "failed to get group"), r.err, {})
            ELSE IF ~GetCurrentUser(caller).ok
            THEN Response("GetGroup", caller, in, <<"getGroup", "getCurrentUser">>,
                          StatusError("NotFound", "failed to get current user"),
                          PlainError("record not found"), {})
            ELSE IF ~(IsTeacher(caller, r.group.CourseID) \/ hasAccessG(caller, r.group.Users))
            THEN Denied("GetGroup", caller, in,
                        <<"getGroup", "getCurrentUser", "isTeacher", "hasAccessG">>,
                        "only members, teachers or admin can access a group")
            ELSE Response("GetGroup", caller, in,
                          <<"getGroup", "getCurrentUser", "isTeacher", "hasAccessG">>,
                          NoError, NoError, {GroupRemoveRemoteIDs(r.group)})
    IN  got(getGroup(in, fault))

\* autograder_service.go:214-225
GetGroupsResponse(caller, in, fault) ==
    IF ~IsAdmin(caller)
    THEN Denied("GetGroups", caller, in, <<"isAdmin">>, "only admin can access other groups")
    ELSE LET got(r) ==
                 IF r.err.kind # "none"
                 THEN Response("GetGroups", caller, in, <<"isAdmin", "getGroups">>,
                               StatusError("NotFound", "failed to get groups"), r.err, {})
                 ELSE Response("GetGroups", caller, in, <<"isAdmin", "getGroups">>,
                               NoError, NoError, {GroupRemoveRemoteIDs(g) : g \in r.groups})
         IN  got(getGroups(in, fault))

\* autograder_service.go:228-239
GetGroupByUserAndCourseResponse(caller, in, fault) ==
    IF ~HasAccess(caller, in.UserID)
    THEN Denied("GetGroupByUserAndCourse", caller, in, <<"hasAccess">>,
                "only admin can access another group")
    ELSE LET got(r) ==
                 IF r.err.kind # "none"
                 THEN Response("GetGroupByUserAndCourse", caller, in,
                               <<"hasAccess", "getGroupByUserAndCourse">>,
                               StatusError("NotFound",
                                           "failed to get group for given user and course"),
                               r.err, {})
                 ELSE Response("GetGroupByUserAndCourse", caller, in,
                               <<"hasAccess", "getGroupByUserAndCourse">>,
                               NoError, NoError, {GroupRemoveRemoteIDs(r.group)})
         IN  got(getGroupByUserAndCourse(in, fault))

\* autograder_service.go:251-254, 274-277: an error without a status is replaced
GenericError(err) ==
    IF FromError(err) THEN err
    ELSE StatusError("Internal", "server error; check server logs for details")

\* autograder_service.go:242-259
CreateGroupOutcome(caller, in, fault) ==
    IF ~GetCurrentUser(caller).ok
    THEN [rpc |-> Response("CreateGroup", caller, in, <<"getCurrentUser">>,
                           StatusError("NotFound", "failed to get current user"),
                           PlainError("record not found"), {}),
          groups |-> groups]
    ELSE LET got(r) ==
                 IF r.err.kind # "none"
                 THEN [rpc |-> Response("CreateGroup", caller, in,
                                        <<"getCurrentUser", "createGroup">>,
                                        GenericError(r.err), r.err, {}),
                       groups |-> r.groups]
                 ELSE [rpc |-> Response("CreateGroup", caller, in,
                                        <<"getCurrentUser", "createGroup">>,
                                        NoError, NoError, {GroupRemoveRemoteIDs(r.group)}),
                       groups |-> r.groups]
         IN  got(createGroup(in, GetCurrentUser(caller).usr, fault))

\* an UpdateGroup that lets an admin pass as well
UpdateGroupOutcome_adminToo(caller, in, fault) ==
    LET updated(usr, r) ==
            [rpc |-> Response("UpdateGroup", caller, in,
                              <<"getUserAndSCM2", "isTeacher", "updateGroup">>,
                              IF r.err.kind # "none" THEN GenericError(r.err) ELSE NoError,
                              r.err, {}),
             groups |-> r.groups]
        resolved(got) ==
            IF ~got.ok
            THEN [rpc |-> Response("UpdateGroup", caller, in, <<"getUserAndSCM2">>,
                                   StatusError(got.code, "failed to get user and scm"),
                                   NoError, {}),
                  groups |-> groups]
            ELSE IF ~(IsTeacher(got.usr.ID, in.CourseID) \/ got.usr.IsAdmin)
            THEN [rpc |-> Denied("UpdateGroup", caller, in, <<"getUserAndSCM2", "isTeacher">>,
                                 "only teachers can update groups"),
                  groups |-> groups]
            ELSE updated(got.usr, updateGroup(in, got.usr, fault))
    IN  resolved(GetUserAndSCM2(caller, in.CourseID, FALSE))

\* autograder_service.go:262-281
UpdateGroupOutcome(caller, in, fault) ==
    LET updated(usr, r) ==
            [rpc |-> Response("UpdateGroup", caller, in,
                              <<"getUserAndSCM2", "isTeacher", "updateGroup">>,
                              IF r.err.kind # "none" THEN GenericError(r.err) ELSE NoError,
                              r.err, {}),
             groups |-> r.groups]
        resolved(got) ==
            IF ~got.ok
            THEN [rpc |-> Response("UpdateGroup", caller, in, <<"getUserAndSCM2">>,
                                   StatusError(got.code, "failed to get user and scm"),
                                   NoError, {}),
                  groups |-> groups]
            ELSE IF ~IsTeacher(got.usr.ID, in.CourseID)
            THEN [rpc |-> Denied("UpdateGroup", caller, in, <<"getUserAndSCM2", "isTeacher">>,
                                 "only teachers can update groups"),
                  groups |-> groups]
            ELSE updated(got.usr, updateGroup(in, got.usr, fault))
    IN  resolved(GetUserAndSCM2(caller, in.CourseID, FALSE))

\* autograder_service.go:284-291
DeleteGroupOutcome(caller, in, fault) ==
    IF in.ID < 1
    THEN [rpc |-> Response("DeleteGroup", caller, in, <<>>,
                           StatusError("InvalidArgument", "invalid payload"), NoError, {}),
          groups |-> groups]
    ELSE LET got(r) ==
                 [rpc |-> Response("DeleteGroup", caller, in, <<"deleteGroup">>,
                                   r.err, r.err, {}),
                  groups |-> r.groups]
         IN  got(deleteGroup(in, fault))

\* autograder_service.go:317-320
UpdateSubmissionOutcome(caller, in, fault) ==
    LET got(r) ==
            [rpc |-> Response("UpdateSubmission", caller, in, <<"UpdateSubmission">>,
                              r.err, r.err, {}),
             submissions |-> r.submissions]
    IN  got(webUpdateSubmission(in, fault))

\* autograder_service.go:355-357
GetRepositoryResponse(caller, in) ==
    Response("GetRepository", caller, in, <<>>,
             StatusError("Unimplemented", "not implemented"), NoError, {})

(***************************************************************************)
(* getAssignments (assignments.go:17-30).  A deadline as the storage holds *)
(* it has a layout, the one the frontend reads or an older one, and        *)
(* denotes an instant.  assignments.FixDeadline and                        *)
(* db.GetAssignmentsByCourse are not part of the sources at hand.          *)
(***************************************************************************)
StoredDeadline(format, instant) == [format |-> format, instant |-> instant]

\* assignments.FixDeadline: the same instant in the layout the frontend reads
FixDeadline(d) == [d EXCEPT !.format = "canonical"]

\* db.GetAssignmentsByCourse: the rows of the course, read from the storage
DbGetAssignmentsByCourse(courseID, fault) ==
    IF fault.kind # "none" THEN [err |-> fault, rows |-> <<>>]
    ELSE [err |-> NoError, rows |-> SelectSeq(assignments, LAMBDA r : r.CourseID = courseID)]

\* a getAssignments that saves the assignments it has fixed
GetAssignmentsOutcome_saved(courseID, fault) ==
    LET fixed(rows) == [k \in 1..Len(rows) |-> [rows[k] EXCEPT !.Deadline = FixDeadline(@)]]
        got(r) ==
            IF r.err.kind # "none"
            THEN [rpc |-> [NoRpc EXCEPT !.op = "getAssignments", !.in = [ID |-> courseID],
                                        !.steps = <<"GetAssignmentsByCourse">>,
                                        !.result = "err", !.code = "Unknown",
                                        !.text = r.err.text, !.cause = r.err],
                  assignments |-> assignments]
            ELSE [rpc |-> [NoRpc EXCEPT !.op = "getAssignments", !.in = [ID |-> courseID],
                                        !.steps = <<"GetAssignmentsByCourse">>,
                                        !.result = "ok", !.code = "OK",
                                        !.Assignments = fixed(r.rows)],
                  assignments |-> [k \in 1..Len(assignments) |->
                                     IF assignments[k].CourseID = courseID
                                     THEN [assignments[k] EXCEPT !.Deadline = FixDeadline(@)]
                                     ELSE assignments[k]]]
    IN  got(DbGetAssignmentsByCourse(courseID, fault))

\* assignments.go:18-30: the error, or the rows of the course with the deadline of each
\* fixed in the value returned; nothing is saved
GetAssignmentsOutcome(courseID, fault) ==
    LET fixed(rows) == [k \in 1..Len(rows) |-> [rows[k] EXCEPT !.Deadline = FixDeadline(@)]]
        got(r) ==
            IF r.err.kind # "none"
            THEN [rpc |-> [NoRpc EXCEPT !.op = "getAssignments", !.in = [ID |-> courseID],
                                        !.steps = <<"GetAssignmentsByCourse">>,
                                        !.result = "err", !.code = "Unknown",
                                        !.text = r.err.text, !.cause = r.err],
                  assignments |-> assignments]
            ELSE [rpc |-> [NoRpc EXCEPT !.op = "getAssignments", !.in = [ID |-> courseID],
                                        !.steps = <<"GetAssignmentsByCourse">>,
                                        !.result = "ok", !.code = "OK",
                                        !.Assignments = fixed(r.rows)],
                  assignments |-> assignments]
    IN  got(DbGetAssignmentsByCourse(courseID, fault))

(***************************************************************************)
(* The requests made to the service.                                       *)
(***************************************************************************)
Void == [ID |-> 0]

RecordRequests == {[ID |-> i] : i \in {1, 3, 7}}

UserRequests == {[ID |-> 3, Name |-> "renamed", IsAdmin |-> b] : b \in BOOLEAN}

EnrollmentRequests == {[UserID |-> 4, CourseID |-> c] : c \in {1, 5}}

GroupRequests ==
    {[ID |-> i, CourseID |-> c, Status |-> "APPROVED", UserIDs |-> {3}] :
        i \in {0, 1}, c \in {1, 5}}

ActionRequests == {[UserID |-> u, CourseID |-> 1] : u \in {2, 3}}

\* callers of the operations that do not look at the caller: a user, and one the
\* context does not resolve to a user
SomeCallers == {3, 9}

GetUser ==
    /\ \E caller \in Callers, in \in RecordRequests, fault \in Faults :
          rpc' = GetUserResponse(caller, in, fault)
    /\ UNCHANGED <<courses, assignments, benchmarks, criteria, reviews,
                   nextBenchmarkID, nextCriterionID, nextReviewID,
                   rubricVars, syncVars, parseVars, reviewVars, frontendVars, provider, cc, org, scmCall,
                   submissions, users, groups, enrollments>>

GetUsers ==
    /\ \E caller \in Callers, fault \in Faults :
          rpc' = GetUsersResponse(caller, Void, fault)
    /\ UNCHANGED <<courses, assignments, benchmarks, criteria, reviews,
                   nextBenchmarkID, nextCriterionID, nextReviewID,
                   rubricVars, syncVars, parseVars, reviewVars, frontendVars, provider, cc, org, scmCall,
                   submissions, users, groups, enrollments>>

UpdateUser ==
    /\ \E caller \in Callers, in \in UserRequests, fault \in Faults :
          LET done(o) == rpc' = o.rpc /\ users' = o.users
          IN  done(UpdateUserOutcome(caller, in, fault))
    /\ UNCHANGED <<courses, assignments, benchmarks, criteria, reviews,
                   nextBenchmarkID, nextCriterionID, nextReviewID,
                   rubricVars, syncVars, parseVars, reviewVars, frontendVars, provider, cc, org, scmCall,
                   submissions, groups, enrollments>>

GetCourses ==
    /\ \E caller \in SomeCallers, fault \in Faults :
          rpc' = GetCoursesResponse(caller, Void, fault)
    /\ UNCHANGED <<courses, assignments, benchmarks, criteria, reviews,
                   nextBenchmarkID, nextCriterionID, nextReviewID,
                   rubricVars, syncVars, parseVars, reviewVars, frontendVars, provider, cc, org, scmCall,
                   submissions, users, groups, enrollments>>

CreateEnrollment ==
    /\ \E caller \in SomeCallers, in \in EnrollmentRequests, fault \in Faults :
          LET done(o) == rpc' = o.rpc /\ enrollments' = o.enrollments
          IN  done(CreateEnrollmentOutcome(caller, in, fault))
    /\ UNCHANGED <<courses, assignments, benchmarks, criteria, reviews,
                   nextBenchmarkID, nextCriterionID, nextReviewID,
                   rubricVars, syncVars, parseVars, reviewVars, frontendVars, provider, cc, org, scmCall,
                   submissions, users, groups>>

GetEnrollmentsByCourse ==
    /\ \E caller \in SomeCallers, in \in {[CourseID |-> 1]}, fault \in Faults :
          rpc' = GetEnrollmentsByCourseResponse(caller, in, fault)
    /\ UNCHANGED <<courses, assignments, benchmarks, criteria, reviews,
                   nextBenchmarkID, nextCriterionID, nextReviewID,
                   rubricVars, syncVars, parseVars, reviewVars, frontendVars, provider, cc, org, scmCall,
                   submissions, users, groups, enrollments>>

GetGroup ==
    /\ \E caller \in Callers, in \in RecordRequests, fault \in Faults :
          rpc' = GetGroupResponse(caller, in, fault)
    /\ UNCHANGED <<courses, assignments, benchmarks, criteria, reviews,
                   nextBenchmarkID, nextCriterionID, nextReviewID,
                   rubricVars, syncVars, parseVars, reviewVars, frontendVars, provider, cc, org, scmCall,
                   submissions, users, groups, enrollments>>

GetGroups ==
    /\ \E caller \in Callers, in \in RecordRequests, fault \in Faults :
          rpc' = GetGroupsResponse(caller, in, fault)
    /\ UNCHANGED <<courses, assignments, benchmarks, criteria, reviews,
                   nextBenchmarkID, nextCriterionID, nextReviewID,
                   rubricVars, syncVars, parseVars, reviewVars, frontendVars, provider, cc, org, scmCall,
                   submissions, users, groups, enrollments>>

GetGroupByUserAndCourse ==
    /\ \E caller \in Callers, in \in ActionRequests, fault \in Faults :
          rpc' = GetGroupByUserAndCourseResponse(caller, in, fault)
    /\ UNCHANGED <<courses, assignments, benchmarks, criteria, reviews,
                   nextBenchmarkID, nextCriterionID, nextReviewID,
                   rubricVars, syncVars, parseVars, reviewVars, frontendVars, provider, cc, org, scmCall,
                   submissions, users, groups, enrollments>>

CreateGroup ==
    /\ \E caller \in Callers, in \in GroupRequests, fault \in Faults :
          LET done(o) == rpc' = o.rpc /\ groups' = o.groups
          IN  done(CreateGroupOutcome(caller, in, fault))
    /\ UNCHANGED <<courses, assignments, benchmarks, criteria, reviews,
                   nextBenchmarkID, nextCriterionID, nextReviewID,
                   rubricVars, syncVars, parseVars, reviewVars, frontendVars, provider, cc, org, scmCall,
                   submissions, users, enrollments>>

UpdateGroup ==
    /\ \E caller \in Callers, in \in GroupRequests, fault \in Faults :
          LET done(o) == rpc' = o.rpc /\ groups' = o.groups
          IN  done(UpdateGroupOutcome(caller, in, fault))
    /\ UNCHANGED <<courses, assignments, benchmarks, criteria, reviews,
                   nextBenchmarkID, nextCriterionID, nextReviewID,
                   rubricVars, syncVars, parseVars, reviewVars, frontendVars, provider, cc, org, scmCall,
                   submissions, users, enrollments>>

DeleteGroup ==
    /\ \E caller \in SomeCallers, in \in {g \in GroupRequests : g.CourseID = 1}, fault \in Faults :
          LET done(o) == rpc' = o.rpc /\ groups' = o.groups
          IN  done(DeleteGroupOutcome(caller, in, fault))
    /\ UNCHANGED <<courses, assignments, benchmarks, criteria, reviews,
                   nextBenchmarkID, nextCriterionID, nextReviewID,
                   rubricVars, syncVars, parseVars, reviewVars, frontendVars, provider, cc, org, scmCall,
                   submissions, users, enrollments>>

UpdateSubmission ==
    /\ \E caller \in SomeCallers, in \in RecordRequests, fault \in Faults :
          LET done(o) == rpc' = o.rpc /\ submissions' = o.submissions
          IN  done(UpdateSubmissionOutcome(caller, in, fault))
    /\ UNCHANGED <<courses, assignments, benchmarks, criteria, reviews,
                   nextBenchmarkID, nextCriterionID, nextReviewID,
                   rubricVars, syncVars, parseVars, reviewVars, frontendVars, provider, cc, org, scmCall,
                   users, groups, enrollments>>

GetRepository ==
    /\ \E caller \in SomeCallers, in \in RecordRequests :
          rpc' = GetRepositoryResponse(caller, in)
    /\ UNCHANGED <<courses, assignments, benchmarks, criteria, reviews,
                   nextBenchmarkID, nextCriterionID, nextReviewID,
                   rubricVars, syncVars, parseVars, reviewVars, frontendVars, provider, cc, org, scmCall,
                   submissions, users, groups, enrollments>>

getAssignments ==
    /\ \E courseID \in {1, 5}, fault \in Faults :
          LET done(o) == rpc' = o.rpc /\ assignments' = o.assignments
          IN  done(GetAssignmentsOutcome(courseID, fault))
    /\ UNCHANGED <<courses, submissions, benchmarks, criteria, reviews,
                   nextBenchmarkID, nextCriterionID, nextReviewID,
                   rubricVars, syncVars, parseVars, reviewVars, frontendVars, provider, cc, org, scmCall,
                   users, groups, enrollments>>

\* the assignments of the service's storage: one saved with a deadline in the older
\* layout, one in the layout the frontend reads
SomeAssignments ==
    << [ID |-> U(1), CourseID |-> 1, Name |-> "lab1", Order |-> 1,
        Deadline |-> StoredDeadline("legacy", 1725235140)],
       [ID |-> U(2), CourseID |-> 1, Name |-> "lab2", Order |-> 2,
        Deadline |-> StoredDeadline("canonical", 1735603200)] >>

InitService ==
    /\ courses = {[ID |-> 1, OrganizationPath |-> "dat100", Provider |-> "gitlab"]}
    /\ assignments = SomeAssignments
    /\ submissions = {[ID |-> 1, AssignmentID |-> U(1), Approved |-> FALSE]}
    /\ benchmarks = {}
    /\ criteria = {}
    /\ reviews = {}
    /\ nextBenchmarkID = 1
    /\ nextCriterionID = 1
    /\ nextReviewID = 1
    /\ lc = [p \in Procs |-> IdleFlow]
    /\ interrupted = {}
    /\ sync = NoSync
    /\ syncRuns = 0
    /\ parseIn = [dir |-> [exists |-> FALSE, entries |-> <<>>], courseID |-> 0]
    /\ parseOut = [returned |-> FALSE, err |-> FALSE, cause |-> "none",
                   assignments |-> <<>>, visited |-> 0]
    /\ users = SomeUsers
    /\ groups = {}
    /\ enrollments = {[UserID |-> 2, CourseID |-> 1, Status |-> "TEACHER"],
                      [UserID |-> 3, CourseID |-> 1, Status |-> "STUDENT"]}
    /\ provider = NoRemote
    /\ cc = IdleCreateCourse
    /\ rpc = NoRpc
    /\ org = IdleOrganizations
    /\ scmCall = NoCall
    /\ rv = [p \in Procs |-> IdleReview]
    /\ grpc = NoClient

NextService ==
    \/ GetUser
    \/ GetUsers
    \/ UpdateUser
    \/ GetCourses
    \/ CreateEnrollment
    \/ GetEnrollmentsByCourse
    \/ GetGroup
    \/ GetGroups
    \/ GetGroupByUserAndCourse
    \/ CreateGroup
    \/ UpdateGroup
    \/ DeleteGroup
    \/ UpdateSubmission
    \/ GetRepository
    \/ getAssignments

SpecService == InitService /\ [][NextService]_vars

\* the operations of the service that the model holds
Exposed ==
    {"GetUser", "GetUsers", "UpdateUser", "GetCourses", "CreateEnrollment",
     "GetEnrollmentsByCourse", "GetGroup", "GetGroups", "GetGroupByUserAndCourse",
     "CreateGroup", "UpdateGroup", "DeleteGroup", "UpdateSubmission", "GetRepository"}

\* the status categories an error of the service is to be in
Categories == {"NotFound", "PermissionDenied", "InvalidArgument", "AlreadyExists", "Internal"}

\* the checks of what the caller may do, and the calls of components
AuthorizationChecks == {"hasAccess", "isAdmin", "isTeacher", "hasAccessG"}

ComponentCalls ==
    {"getUser", "getUsers", "updateUser", "ListCourses", "CreateEnrollment",
     "GetEnrollmentsByCourse", "getGroup", "getGroups", "getGroupByUserAndCourse",
     "createGroup", "updateGroup", "deleteGroup", "UpdateSubmission"}

\* C12: an operation of the service that fails returns an error in one of the fixed
\* categories, and when the cause is an error without a status the caller does not
\* receive the text of the cause.
C12_FixedCategories ==
    (rpc.op \in Exposed /\ rpc.result = "err")
        => /\ rpc.code \in Categories
           /\ rpc.cause.kind = "plain" => rpc.text # rpc.cause.text

\* C13: in every operation of the service, each call of a component comes after a check
\* of what the caller may do.
C13_AuthorizedBeforeDelegation ==
    rpc.op \in Exposed
        => \A i \in DOMAIN rpc.steps :
              rpc.steps[i] \in ComponentCalls
                  => \E j \in 1..(i - 1) : rpc.steps[j] \in AuthorizationChecks

\* C14 as stated: UpdateGroup changes no group unless the caller is a teacher of the
\* course or an admin; a caller who is neither gets PermissionDenied with the groups
\* unchanged; for a teacher or an admin the check passes and updateGroup runs after it.
C14_TeacherOrAdminGate ==
    [][rpc'.op = "UpdateGroup"
          => LET allowed == IsTeacher(rpc'.caller, rpc'.in.CourseID) \/ IsAdmin(rpc'.caller)
             IN  /\ groups' # groups => allowed
                 /\ ~allowed => (rpc'.code = "PermissionDenied" /\ groups' = groups)
                 /\ (allowed /\ GetUserAndSCM2(rpc'.caller, rpc'.in.CourseID, FALSE).ok)
                        => rpc'.steps = <<"getUserAndSCM2", "isTeacher", "updateGroup">>]_vars

\* C14: UpdateGroup changes no group unless the caller is a teacher of the course of the
\* group; a caller who is resolved and is not a teacher of it, admin or not, gets
\* PermissionDenied with the groups unchanged; a caller who is not resolved gets an error
\* with the groups unchanged; for a teacher the check passes and updateGroup runs after it.
C14_TeacherGate ==
    [][rpc'.op = "UpdateGroup"
          => LET teacher == IsTeacher(rpc'.caller, rpc'.in.CourseID)
                 resolved == GetUserAndSCM2(rpc'.caller, rpc'.in.CourseID, FALSE).ok
             IN  /\ groups' # groups => (resolved /\ teacher)
                 /\ (resolved /\ ~teacher)
                        => /\ rpc'.code = "PermissionDenied"
                           /\ rpc'.steps = <<"getUserAndSCM2", "isTeacher">>
                           /\ groups' = groups
                 /\ ~resolved
                        => /\ rpc'.result = "err"
                           /\ rpc'.steps = <<"getUserAndSCM2">>
                           /\ groups' = groups
                 /\ (resolved /\ teacher)
                        => rpc'.steps = <<"getUserAndSCM2", "isTeacher", "updateGroup">>]_vars

\* a teacher has approved a group
C14_Witness ==
    /\ rpc.op = "UpdateGroup"
    /\ rpc.result = "ok"
    /\ rpc.steps = <<"getUserAndSCM2", "isTeacher", "updateGroup">>
    /\ IsTeacher(rpc.caller, rpc.in.CourseID)
    /\ \E g \in groups : g.ID = rpc.in.ID /\ g.Status = "APPROVED"

\* C15: GetUser and UpdateUser asked by a caller who is not an admin about another user
\* return PermissionDenied, call no component and change no user; an admin is not
\* refused, and neither is a user who asks about their own record.
C15_OwnRecordOnly ==
    [][rpc'.op \in {"GetUser", "UpdateUser"}
          => /\ (~IsAdmin(rpc'.caller) /\ rpc'.in.ID # rpc'.caller)
                    => /\ rpc'.code = "PermissionDenied"
                       /\ rpc'.steps = <<"hasAccess">>
                       /\ rpc'.body = {}
                       /\ users' = users
             /\ IsAdmin(rpc'.caller) => rpc'.code # "PermissionDenied"
             /\ (GetCurrentUser(rpc'.caller).ok /\ rpc'.in.ID = rpc'.caller)
                    => rpc'.code # "PermissionDenied"]_vars

\* a user who is not an admin has asked to update another user, who exists
C15_Witness ==
    /\ rpc.op = "UpdateUser"
    /\ ~IsAdmin(rpc.caller)
    /\ GetCurrentUser(rpc.caller).ok
    /\ rpc.in.ID # rpc.caller
    /\ \E u \in users : u.ID = rpc.in.ID
    /\ rpc.code = "PermissionDenied"

UsersOps == {"GetUser", "GetUsers", "UpdateUser"}

GroupsOps == {"GetGroup", "GetGroups", "GetGroupByUserAndCourse", "CreateGroup"}

\* C16: a successful response of GetUser, GetUsers, UpdateUser, GetEnrollmentsByCourse,
\* GetGroup, GetGroups, GetGroupByUserAndCourse or CreateGroup holds no remote identity
\* in any user, group or enrollment record.
C16_NoRemoteIdentities ==
    rpc.result = "ok"
        => /\ rpc.op \in UsersOps => \A u \in rpc.body : u.RemoteIdentities = {}
           /\ rpc.op \in GroupsOps
                  => \A g \in rpc.body : \A u \in g.Users : u.RemoteIdentities = {}
           /\ rpc.op = "GetEnrollmentsByCourse"
                  => \A e \in rpc.body : e.User.RemoteIdentities = {}

\* a group was returned whose members have remote identities in the storage
C16_Witness ==
    /\ rpc.op = "GetGroup"
    /\ rpc.result = "ok"
    /\ \E g \in rpc.body : \E u \in g.Users :
          \E x \in users : x.ID = u.ID /\ x.RemoteIdentities # {}

\* C20: getAssignments writes nothing to the storage, and what it returns are the rows
\* of the course, each with its deadline normalized and denoting the instant it
\* denotes in the storage.
C20_NormalizedOnReadOnly ==
    [][rpc'.op = "getAssignments"
          => /\ assignments' = assignments
             /\ rpc'.result = "ok"
                    => LET rows == SelectSeq(assignments,
                                             LAMBDA r : r.CourseID = rpc'.in.ID)
                       IN  /\ Len(rpc'.Assignments) = Len(rows)
                           /\ \A k \in 1..Len(rows) :
                                 /\ rpc'.Assignments[k].ID = rows[k].ID
                                 /\ rpc'.Assignments[k].Deadline.format = "canonical"
                                 /\ rpc'.Assignments[k].Deadline.instant
                                        = rows[k].Deadline.instant]_vars

\* an assignment was returned whose deadline the storage holds in the older layout
C20_Witness ==
    /\ rpc.op = "getAssignments"
    /\ rpc.result = "ok"
    /\ \E k \in 1..Len(rpc.Assignments) : \E j \in 1..Len(assignments) :
          /\ assignments[j].ID = rpc.Assignments[k].ID
          /\ assignments[j].CourseID = rpc.Assignments[k].CourseID
          /\ assignments[j].Deadline.format = "legacy"
          /\ rpc.Assignments[k].Deadline.format = "canonical"

(***************************************************************************)
(* GetOrganizations (autograder_service.go:343-352).  Time is counted in   *)
(* units of the clock org.now.  The request gets a context that ends       *)
(* MaxWait after its start, and the call to the provider is made with that *)
(* context (unnamed/part_002:46, gitlab.WithContext): it ends when the     *)
(* provider answers or when the context ends.  ListOrganizations and       *)
(* MaxWait are not part of the sources at hand.                            *)
(***************************************************************************)
\* the clock stops here
MaxClock == 5

\* the wait bound of GetOrganizations, in units of the clock
MaxWait == 2

\* context.Background with no deadline
WithTimeout_background(now, d) == [hasDeadline |-> FALSE, deadline |-> 0]

\* context.WithTimeout(ctx, d), made at the time now
WithTimeout(now, d) == [hasDeadline |-> TRUE, deadline |-> now + d]

\* directories the provider may hold when organizations are asked for
SomeDirectories == {[ID |-> 1, Path |-> "dat100"], [ID |-> 2, Path |-> "dat200"]}

\* GitlabSCM.ListDirectories (part_002:45-60), given the provider's answer
ListDirectories(list) ==
    IF list.err # "none" THEN [err |-> list.err, directories |-> {}]
    ELSE [err |-> "none",
          directories |-> {[ID |-> g.ID, Path |-> g.Path] : g \in list.groups}]

\* autograder_service.go:344-349: the context is made and the caller resolved
GetOrganizations ==
    /\ org.pc = "idle"
    /\ org.now + MaxWait <= MaxClock
    /\ \E caller \in Callers, name \in {"gitlab", "github"} :
          LET resolved(ctx, got) ==
                  org' = IF ~got.ok
                         THEN [org EXCEPT !.pc = "done", !.start = org.now, !.end = org.now,
                                          !.caller = caller, !.ctx = ctx,
                                          !.result = "err", !.code = got.code]
                         ELSE [org EXCEPT !.pc = "ListGroups", !.start = org.now,
                                          !.caller = caller, !.ctx = ctx]
          IN  resolved(WithTimeout(org.now, MaxWait), GetUserAndSCM(caller, name, FALSE))
    /\ UNCHANGED <<storageVars, rubricVars, syncVars, parseVars, reviewVars, frontendVars,
                   users, groups, enrollments, provider, cc, rpc, scmCall>>

\* time passes; a call made with a context does not outlast it
Tick ==
    /\ org.now < MaxClock
    /\ (org.pc = "ListGroups" /\ org.ctx.hasDeadline) => org.now < org.ctx.deadline
    /\ org' = [org EXCEPT !.now = @ + 1]
    /\ UNCHANGED <<storageVars, rubricVars, syncVars, parseVars, reviewVars, frontendVars,
                   users, groups, enrollments, provider, cc, rpc, scmCall>>

\* ListOrganizations: the provider answers the call of ListDirectories
ListOrganizations ==
    /\ org.pc = "ListGroups"
    /\ \E up \in BOOLEAN :
          LET listed(r) ==
                  org' = IF r.err # "none"
                         THEN [org EXCEPT !.pc = "done", !.end = org.now,
                                          !.result = "err", !.code = r.err]
                         ELSE [org EXCEPT !.pc = "done", !.end = org.now,
                                          !.result = "ok", !.code = "OK",
                                          !.body = r.directories]
          IN  listed(ListDirectories(GroupsListGroups(up)))
    /\ UNCHANGED <<storageVars, rubricVars, syncVars, parseVars, reviewVars, frontendVars,
                   users, groups, enrollments, provider, cc, rpc, scmCall>>

\* ListOrganizations: the context ends before the provider has answered
DeadlineExceeded ==
    /\ org.pc = "ListGroups"
    /\ org.ctx.hasDeadline
    /\ org.now >= org.ctx.deadline
    /\ org' = [org EXCEPT !.pc = "done", !.end = org.now,
                          !.result = "err", !.code = "DeadlineExceeded"]
    /\ UNCHANGED <<storageVars, rubricVars, syncVars, parseVars, reviewVars, frontendVars,
                   users, groups, enrollments, provider, cc, rpc, scmCall>>

\* autograder_service.go:349, 351: the caller has the organizations or the error
GetOrganizationsReturn ==
    /\ org.pc = "done"
    /\ org' = [IdleOrganizations EXCEPT !.now = org.now]
    /\ UNCHANGED <<storageVars, rubricVars, syncVars, parseVars, reviewVars, frontendVars,
                   users, groups, enrollments, provider, cc, rpc, scmCall>>

InitOrganizations ==
    /\ courses = {}
    /\ assignments = <<>>
    /\ submissions = {}
    /\ benchmarks = {}
    /\ criteria = {}
    /\ reviews = {}
    /\ nextBenchmarkID = 1
    /\ nextCriterionID = 1
    /\ nextReviewID = 1
    /\ lc = [p \in Procs |-> IdleFlow]
    /\ interrupted = {}
    /\ sync = NoSync
    /\ syncRuns = 0
    /\ parseIn = [dir |-> [exists |-> FALSE, entries |-> <<>>], courseID |-> 0]
    /\ parseOut = [returned |-> FALSE, err |-> FALSE, cause |-> "none",
                   assignments |-> <<>>, visited |-> 0]
    /\ users = SomeUsers
    /\ groups = {}
    /\ enrollments = {}
    /\ \E ds \in SUBSET SomeDirectories :
          provider = [directories |-> ds, repositories |-> {}, nextID |-> 3]
    /\ cc = IdleCreateCourse
    /\ rpc = NoRpc
    /\ org = IdleOrganizations
    /\ scmCall = NoCall
    /\ rv = [p \in Procs |-> IdleReview]
    /\ grpc = NoClient

NextOrganizations ==
    \/ GetOrganizations
    \/ Tick
    \/ ListOrganizations
    \/ DeadlineExceeded
    \/ GetOrganizationsReturn

\* the clock runs and a context that has reached its deadline ends the call
SpecOrganizations ==
    /\ InitOrganizations
    /\ [][NextOrganizations]_vars
    /\ WF_vars(Tick)
    /\ WF_vars(DeadlineExceeded)

\* C17: GetOrganizations never waits for the provider longer than MaxWait, has returned
\* within MaxWait of its start, and a call that waits for the provider does end.
C17_ReturnsWithinMaxWait ==
    /\ [](org.pc = "ListGroups" => org.now <= org.start + MaxWait)
    /\ [](org.pc = "done" => org.end <= org.start + MaxWait)
    /\ [](org.code = "DeadlineExceeded" => org.result = "err")
    /\ (org.pc = "ListGroups" ~> org.pc = "done")

\* the provider had not answered when the bound elapsed, and the operation ended with
\* the error
C17_Witness ==
    /\ org.pc = "done"
    /\ org.code = "DeadlineExceeded"
    /\ org.result = "err"
    /\ org.end = org.start + MaxWait

(***************************************************************************)
(* Calls to the client of the provider, GitlabSCM (unnamed/part_002).  The *)
(* client holds nothing but its connection to the provider (part_002:33-35)*)
(* and has no access to the storage.                                       *)
(***************************************************************************)
DirectoryOptions == {[Name |-> n, Path |-> n] : n \in {"dat100", "dat200"}}

\* options with no directory, with a directory the provider may hold, and with one it
\* never holds
RepositoryOptions ==
    {[Path |-> p, Directory |-> d] :
        p \in {"info", "tests"},
        d \in {NilDirectory} \cup {DirectoryPtr(i, "") : i \in {1, 2, 9}}}

\* IDs of directories the provider may hold, and one it never holds
DirectoryIDs == {1, 2, 9}

\* what the provider answers when the namespace of a new project is none of its groups
UnknownNamespaceAnswers == {"NotFound", "BadRequest"}

\* part_002:63-78
CallCreateDirectory ==
    /\ provider.nextID <= MaxRemoteID
    /\ Cardinality(provider.directories) < MaxDirectories
    /\ \E opt \in DirectoryOptions, up \in BOOLEAN, done \in BOOLEAN :
          LET returned(group, r) ==
                  /\ provider' = ProviderWithGroup(group)
                  /\ scmCall' = [NoCall EXCEPT !.op = "CreateDirectory",
                                               !.answered = up /\ ~done,
                                               !.requested = TRUE, !.requests = 1,
                                               !.failure = group.err, !.err = r.err,
                                               !.made = r.err = "none"]
              answered(group) == returned(group, CreateDirectory(opt, group))
          IN  answered(WithContext(done, GroupsCreateGroup(opt.Path, up)))
    /\ UNCHANGED <<storageVars, rubricVars, syncVars, parseVars, reviewVars, frontendVars,
                   users, groups, enrollments, cc, rpc, org>>

\* part_002:95-116: the call ends at line 96 when there is no directory to read the ID
\* of, and with the provider's answer otherwise
CallCreateRepository ==
    /\ provider.nextID <= MaxRemoteID
    /\ \E opt \in RepositoryOptions, up \in BOOLEAN, done \in BOOLEAN,
          unknown \in UnknownNamespaceAnswers :
          LET returned(repo, r) ==
                  /\ provider' = IF r.panic THEN provider
                                 ELSE ProviderWithProject(repo, opt.Directory.ID)
                  /\ scmCall' = [NoCall EXCEPT !.op = "CreateRepository", !.opt = opt,
                                               !.answered = up /\ ~done /\ ~r.panic,
                                               !.panic = r.panic, !.requested = ~r.panic,
                                               !.requests = IF r.panic THEN 0 ELSE 1,
                                               !.failure = IF r.panic THEN "none"
                                                           ELSE repo.err,
                                               !.err = r.err, !.made = r.made]
              answered(repo) == returned(repo, CreateRepository(opt, repo))
          IN  answered(WithContext(done, ProjectsCreateProject(opt.Path, opt.Directory.ID,
                                                               up, unknown)))
    /\ UNCHANGED <<storageVars, rubricVars, syncVars, parseVars, reviewVars, frontendVars,
                   users, groups, enrollments, cc, rpc, org>>

\* part_002:45-60
CallListDirectories ==
    /\ \E up \in BOOLEAN, done \in BOOLEAN :
          LET returned(list, r) ==
                  scmCall' = [NoCall EXCEPT !.op = "ListDirectories",
                                            !.answered = up /\ ~done,
                                            !.requested = TRUE, !.requests = 1,
                                            !.failure = list.err, !.err = r.err,
                                            !.made = r.err = "none"]
              answered(list) == returned(list, ListDirectories(list))
          IN  answered(WithContext(done, GroupsListGroups(up)))
    /\ UNCHANGED <<storageVars, rubricVars, syncVars, parseVars, reviewVars, frontendVars,
                   users, groups, enrollments, provider, cc, rpc, org>>

\* a call of GetDirectory that asks the provider again when the request has failed
CallGetDirectory_retry ==
    /\ \E id \in DirectoryIDs, up \in BOOLEAN, again \in BOOLEAN, done \in BOOLEAN :
          LET returned(first, group, r) ==
                  scmCall' = [NoCall EXCEPT !.op = "GetDirectory",
                                            !.opt = [Path |-> "",
                                                     Directory |-> DirectoryPtr(id, "")],
                                            !.answered = ~done,
                                            !.requested = TRUE,
                                            !.requests = IF first.err # "none" THEN 2 ELSE 1,
                                            !.failure = first.err, !.err = r.err,
                                            !.made = r.err = "none"]
              asked(first, group) == returned(first, group, GetDirectory(id, group))
              answered(first) ==
                  asked(first, IF first.err # "none" THEN GroupsGetGroup(id, again)
                               ELSE first)
          IN  answered(WithContext(done, GroupsGetGroup(id, up)))
    /\ UNCHANGED <<storageVars, rubricVars, syncVars, parseVars, reviewVars, frontendVars,
                   users, groups, enrollments, provider, cc, rpc, org>>

\* part_002:81-92
CallGetDirectory ==
    /\ \E id \in DirectoryIDs, up \in BOOLEAN, done \in BOOLEAN :
          LET returned(group, r) ==
                  scmCall' = [NoCall EXCEPT !.op = "GetDirectory",
                                            !.opt = [Path |-> "",
                                                     Directory |-> DirectoryPtr(id, "")],
                                            !.answered = up /\ ~done,
                                            !.requested = TRUE, !.requests = 1,
                                            !.failure = group.err, !.err = r.err,
                                            !.made = r.err = "none"]
              answered(group) == returned(group, GetDirectory(id, group))
          IN  answered(WithContext(done, GroupsGetGroup(id, up)))
    /\ UNCHANGED <<storageVars, rubricVars, syncVars, parseVars, reviewVars, frontendVars,
                   users, groups, enrollments, provider, cc, rpc, org>>

\* part_002:119-138: the call ends at line 120 when there is no directory to read the
\* ID of, and with the provider's answer otherwise
CallGetRepositories ==
    /\ \E directory \in {NilDirectory} \cup {DirectoryPtr(i, "") : i \in DirectoryIDs},
          up \in BOOLEAN, done \in BOOLEAN :
          LET returned(repos, r) ==
                  scmCall' = [NoCall EXCEPT !.op = "GetRepositories",
                                            !.opt = [Path |-> "", Directory |-> directory],
                                            !.answered = up /\ ~done /\ ~r.panic,
                                            !.panic = r.panic, !.requested = ~r.panic,
                                            !.requests = IF r.panic THEN 0 ELSE 1,
                                            !.failure = IF r.panic THEN "none"
                                                        ELSE repos.err,
                                            !.err = r.err,
                                            !.made = ~r.panic /\ r.err = "none"]
              answered(repos) == returned(repos, GetRepositories(directory, repos))
          IN  answered(WithContext(done, GroupsListGroupProjects(directory.ID, up)))
    /\ UNCHANGED <<storageVars, rubricVars, syncVars, parseVars, reviewVars, frontendVars,
                   users, groups, enrollments, provider, cc, rpc, org>>

InitSCM == InitStorage /\ InitIdle

NextSCM ==
    \/ CallCreateDirectory
    \/ CallCreateRepository
    \/ CallListDirectories
    \/ CallGetDirectory
    \/ CallGetRepositories

SpecSCM == InitSCM /\ [][NextSCM]_vars

\* C18: CreateRepository, asked with a directory whose ID the provider does not hold and
\* answered by the provider, returns the error NotFound and no repository, and the
\* storage is as it was.
C18_UnknownDirectoryNotFound ==
    [][(/\ scmCall'.op = "CreateRepository"
        /\ scmCall'.answered
        /\ scmCall'.opt.Directory.set
        /\ ~(\E d \in provider.directories : d.ID = scmCall'.opt.Directory.ID))
          => /\ scmCall'.err = "NotFound"
             /\ ~scmCall'.made
             /\ provider'.repositories = provider.repositories
             /\ UNCHANGED storageVars]_vars

\* C19: CreateRepository, asked with options that hold no directory, returns an error:
\* it does not crash and sends no request to the provider.
C19_UnsetDirectoryIsAnError ==
    (scmCall.op = "CreateRepository" /\ ~scmCall.opt.Directory.set)
        => /\ ~scmCall.panic
           /\ scmCall.err # "none"
           /\ ~scmCall.requested

\* the operations of the client
SCMOperations ==
    {"ListDirectories", "CreateDirectory", "GetDirectory", "CreateRepository",
     "GetRepositories"}

\* C22: a call of ListDirectories, CreateDirectory, GetDirectory, CreateRepository or
\* GetRepositories sends at most one request to the provider, and when that request
\* fails or the context ends before the answer, the call returns that failure and no
\* result.
C22_OneRequestNoRetry ==
    scmCall.op \in SCMOperations
        => /\ scmCall.requests <= 1
           /\ scmCall.failure # "none"
                 => /\ scmCall.err = scmCall.failure
                    /\ ~scmCall.made

\* a call has returned after its context ended before the provider answered
C22_Witness ==
    /\ scmCall.op \in SCMOperations
    /\ scmCall.requests = 1
    /\ scmCall.failure = "Canceled"
    /\ scmCall.err = "Canceled"

(***************************************************************************)
(* createReview (assignments.go:129-147), one step per storage write: the  *)
(* service answers each request in a flow of its own, and the flows share  *)
(* nothing but the storage.                                                *)
(***************************************************************************)
\* reviews asked for the two submissions, and for one that does not exist
ReviewQueries == {[SubmissionID |-> n] : n \in {1, 2, 3}}

\* return nil, err
FailReview(r, cause) == [r EXCEPT !.pc = "done", !.result = cause]

\* assignments.go:130-141: the submission with its reviews, its assignment, and the
\* comparison of the number of reviews with the reviewers of the assignment
createReviewGet(p) ==
    /\ rv[p].pc = "idle"
    /\ nextReviewID <= MaxReviews + 1
    /\ \E query \in ReviewQueries :
          LET asked == [IdleReview EXCEPT !.query = query]
              checked(submission, assignment) ==
                  IF ~assignment.found THEN FailReview(asked, "GetAssignment")
                  ELSE LET read == [asked EXCEPT
                                        !.found = TRUE,
                                        !.seen = Cardinality(submission.Reviews),
                                        !.reviewers = assignment.row.Reviewers]
                       IN  IF read.seen >= read.reviewers
                           THEN FailReview(read, "all reviews already created")
                           ELSE [read EXCEPT !.pc = "CreateReview"]
              got(submission) ==
                  IF ~submission.found THEN FailReview(asked, "GetSubmission")
                  ELSE checked(submission,
                               DbGetAssignment([ID |-> submission.row.AssignmentID,
                                                CourseID |-> 0]))
          IN  rv' = [rv EXCEPT ![p] = got(DbGetSubmission([ID |-> query.SubmissionID]))]
    /\ UNCHANGED <<storageVars, rubricVars, syncVars, parseVars, frontendVars, facadeVars>>

\* assignments.go:142-145: the review is inserted, or the storage fails
createReviewCreate(p) ==
    /\ rv[p].pc = "CreateReview"
    /\ \/ /\ reviews' = reviews \cup {DbCreateReview(rv[p].query)}
          /\ nextReviewID' = nextReviewID + 1
          /\ rv' = [rv EXCEPT ![p] = [@ EXCEPT !.pc = "done", !.result = "ok",
                                               !.created = nextReviewID]]
       \/ /\ UNCHANGED <<reviews, nextReviewID>>
          /\ rv' = [rv EXCEPT ![p] = FailReview(@, "CreateReview")]
    /\ UNCHANGED <<courses, assignments, submissions, benchmarks, criteria,
                   nextBenchmarkID, nextCriterionID, rubricVars, syncVars, parseVars,
                   frontendVars, facadeVars>>

\* assignments.go:146 and the error returns: the caller has the review or the error
createReviewReturn(p) ==
    /\ rv[p].pc = "done"
    /\ rv' = [rv EXCEPT ![p] = IdleReview]
    /\ UNCHANGED <<storageVars, rubricVars, syncVars, parseVars, frontendVars, facadeVars>>

NextReviews ==
    \E p \in Procs :
        \/ createReviewGet(p)
        \/ createReviewCreate(p)
        \/ createReviewReturn(p)

SpecReviews == InitRubric /\ [][NextReviews]_vars

\* the reviewers of the assignment of submission s
ReviewersOf(s) ==
    DbGetAssignment([ID |-> s.AssignmentID, CourseID |-> 0]).row.Reviewers

\* C24: a submission never has more reviews than its assignment has reviewers,
\* whatever the interleaving of the createReview requests, and a createReview that
\* found the limit reached has returned an error and created nothing.
C24_ReviewsWithinLimit ==
    /\ \A s \in submissions :
          Cardinality({r \in reviews : r.SubmissionID = s.ID}) <= ReviewersOf(s)
    /\ \A p \in Procs :
          (rv[p].pc = "done" /\ rv[p].found /\ rv[p].seen >= rv[p].reviewers)
              => rv[p].result # "ok" /\ rv[p].created = 0

(***************************************************************************)
(* The rubric import, two requests at a time: the flows of loadCriteria    *)
(* (assignments.go:83-127, 157-178) interleave at their storage calls.     *)
(***************************************************************************)
NextImports ==
    \E p \in Procs :
        \/ loadCriteria(p)
        \/ DeleteCriterion(p)
        \/ DeleteBenchmark(p)
        \/ GetSubmissions(p)
        \/ DeleteReview(p)
        \/ CreateBenchmark(p)
        \/ CreateCriterion(p)
        \/ Return(p)

SpecImports == InitRubric /\ [][NextImports]_vars

\* both flows have returned successfully for the same assignment, and neither had
\* returned when the other arrived
BothImported ==
    /\ \A p \in Procs : lc[p].pc = "done" /\ lc[p].result = "ok"
    /\ lc[1].assignment.ID = lc[2].assignment.ID

\* C25: when two loadCriteria requests for the same assignment have both returned
\* successfully, the assignment holds exactly the rubric one of the two returned: not
\* the union of both and not a mixture.
C25_OneRubricOfTwo ==
    BothImported
        => \E p \in Procs : GradingBenchmarksOf(lc[p].assignment.ID) = lc[p].benchmarks

(***************************************************************************)
(* GrpcManager (unnamed/part_002:264-545), the client of the service in    *)
(* the browser.  grpcSend wraps a call of the generated client in a        *)
(* promise; the generated client (grpc-web) reports through a callback.    *)
(* The model follows the last promise made.                                *)
(***************************************************************************)
\* grpcWeb.StatusCode.OK
StatusCodeOK == 0

\* times the generated client may fire the callback of one call
MaxCallbacks == 2

\* user managers: one with no current user, and two with a current user
UserManagers ==
    {[defined |-> TRUE, currentUser |-> Null]}
        \cup {[defined |-> TRUE,
               currentUser |-> [null |-> FALSE, id |-> n, code |-> 0, message |-> ""]] :
                  n \in {1, 2}}

\* the errors the generated client may hand to the callback
GrpcErrors ==
    {[null |-> FALSE, id |-> 0, code |-> 0, message |-> "ok"],
     [null |-> FALSE, id |-> 0, code |-> 2, message |-> "unknown"],
     [null |-> FALSE, id |-> 0, code |-> 7, message |-> "permission denied"]}

Methods == {"getUser", "getUsers", "getProviders"}

\* Number.toString of a user ID below ten
IdToString(id) == DigitChars[id + 1]

\* resolve(temp): a promise is settled once, and resolving a settled one does nothing
Resolve(g, temp) ==
    IF g.promise = "pending"
    THEN [g EXCEPT !.promise = "resolved", !.settled = @ + 1, !.value = temp]
    ELSE g

\* part_002:538-544
logErr(g, resp) ==
    IF resp.code # 0 THEN [g EXCEPT !.logged = @ + 1] ELSE g

\* part_002:279-281
setUserMan ==
    /\ \E man \in UserManagers : grpc' = [grpc EXCEPT !.userMan = man]
    /\ UNCHANGED <<storageVars, rubricVars, syncVars, parseVars, reviewVars, facadeVars>>

\* part_002:499-510 and 535: the promise is made and its executor runs; reading the
\* current user of a user manager that is undefined throws, and a promise whose
\* executor throws is rejected
grpcSend ==
    /\ \E method \in Methods :
          grpc' = IF ~grpc.userMan.defined
                  THEN [NoClient EXCEPT !.userMan = grpc.userMan, !.method = method,
                                        !.promise = "rejected", !.settled = 1]
                  ELSE [NoClient EXCEPT
                            !.userMan = grpc.userMan, !.method = method,
                            !.promise = "pending",
                            !.header = IF grpc.userMan.currentUser.null THEN ""
                                       ELSE IdToString(grpc.userMan.currentUser.id)]
    /\ UNCHANGED <<storageVars, rubricVars, syncVars, parseVars, reviewVars, facadeVars>>

\* part_002:511-533: the callback of the call; err and response are what the generated
\* client hands to it
Callback ==
    /\ grpc.promise \in {"pending", "resolved"}
    /\ grpc.fired < MaxCallbacks
    /\ \E err \in {Null} \cup GrpcErrors, response \in {1, 2} :
          LET fired == [grpc EXCEPT !.fired = @ + 1,
                                    !.err = IF grpc.fired = 0 THEN err ELSE @,
                                    !.response = IF grpc.fired = 0 THEN response ELSE @]
              failed == [code |-> err.code, error |-> err.message,
                         hasData |-> FALSE, data |-> 0]
              ok == [code |-> 0, error |-> "OK", hasData |-> TRUE, data |-> response]
          IN  grpc' = IF ~err.null
                      THEN IF err.code # StatusCodeOK
                           THEN Resolve(logErr(fired, failed), failed)
                           ELSE fired
                      ELSE Resolve(fired, ok)
    /\ UNCHANGED <<storageVars, rubricVars, syncVars, parseVars, reviewVars, facadeVars>>

NextClient ==
    \/ setUserMan
    \/ grpcSend
    \/ Callback

SpecClient == InitRubric /\ [][NextClient]_vars

\* C26: a promise of grpcSend is never rejected, and once the callback has fired it is
\* resolved, exactly once: with code 0 and the response as data when the callback
\* had no error, and with the code and the message of the error and no data when it
\* had one.
C26_ResolvedOnceNeverRejected ==
    /\ grpc.promise # "rejected"
    /\ grpc.fired > 0
          => /\ grpc.promise = "resolved"
             /\ grpc.settled = 1
             /\ grpc.err.null
                   => /\ grpc.value.code = 0
                      /\ grpc.value.hasData
                      /\ grpc.value.data = grpc.response
             /\ ~grpc.err.null
                   => /\ grpc.value.code = grpc.err.code
                      /\ grpc.value.error = grpc.err.message
                      /\ ~grpc.value.hasData

====
